---- MODULE Spec2Model ----
(***************************************************************************)
(* Rainbow core (rainbowlang/rainbow, crate rainbow_core): the host API    *)
(* (Namespace::define, Script::compile, Script::eval, Block::call) and,    *)
(* below it, the constraint-based type checker, the bytecode emitter and   *)
(* the stack machine with its re-entrant block calls.                      *)
(*                                                                         *)
(* Syntax trees are nested records (one record per node, tagged with its   *)
(* NodeType); symbol and constant ids are arena indexes (0-based, u16) as  *)
(* in the source.  Numbers are integers (the model never divides).         *)
(***************************************************************************)
EXTENDS Integers, Sequences, FiniteSets, TLC

\* -------------------------------------------------------------- arena.rs

\* ArenaId = u16: ids live in 0 .. 2^16 - 1.
U16 == 65536

\* argc of MkBlock and Block is a u8.
U8 == 256

\* Option::None of Arena::find.
None == -1

\* Arena::find: the first position that holds a value equal to `it`.
Find(data, it) ==
    LET hits == {i \in 1..Len(data) : data[i] = it}
    IN  IF hits = {} THEN None
        ELSE ((CHOOSE i \in hits : \A j \in hits : i <= j) - 1) % U16

\* An intern that keeps no check for a stored equal value.
InternAppend(data, member) == Append(data, member)

\* Arena::intern, the arena after the call.
Intern(data, member) ==
    IF Find(data, member) # None THEN data ELSE Append(data, member)

\* Arena::intern, the id returned.
InternId(data, member) ==
    IF Find(data, member) # None THEN Find(data, member) ELSE Len(data) % U16

\* Arena::resolve.
Resolve(data, id) == data[id + 1]

\* The element of a set of one.  The({e : x \in {v}}) is e with x standing
\* for the value of v, which is worked out once however often e uses it.
The(S) == CHOOSE x \in S : TRUE

RECURSIVE InternAll(_, _)
\* intern called once per element of `members`, in order.
InternAll(data, members) ==
    IF members = <<>> THEN data
    ELSE InternAll(Intern(data, Head(members)), Tail(members))

RECURSIVE Flatten(_)
\* Concatenation of a sequence of sequences (Vec::extend in a loop).
Flatten(seqs) ==
    IF seqs = <<>> THEN <<>> ELSE Head(seqs) \o Flatten(Tail(seqs))

\* ------------------------------------------- primitive.rs, standalone.rs

\* Prim::Number / Value::Prim(Prim::Number).
NumV(n) == [k |-> "Number", n |-> n]

\* Prim::String.
StrV(s) == [k |-> "String", s |-> s]

\* Prim::Boolean.
BoolV(b) == [k |-> "Boolean", b |-> b]

\* Value::List.
ListV(items) == [k |-> "List", items |-> items]

\* Value::Record: a map from field names to values.
RecordV(fields) == [k |-> "Record", fields |-> fields]

\* FromIterator<(String, Value)>: later pairs overwrite earlier ones.
RecordFromPairs(pairs) ==
    LET names == {pairs[i][1] : i \in 1..Len(pairs)}
        last(n) == CHOOSE i \in 1..Len(pairs) :
                      /\ pairs[i][1] = n
                      /\ \A j \in 1..Len(pairs) : pairs[j][1] = n => j <= i
    IN  RecordV([n \in names |-> pairs[last(n)][2]])

\* ------------------------------------------------ frontend/syntax_tree.rs

\* NodeType::Primitive over the constant `prim`.
PrimitiveNode(prim) == [t |-> "Primitive", prim |-> prim]

\* NodeType::Variable with its Ident children (the dotted path).
VariableNode(path) == [t |-> "Variable", path |-> path]

\* NodeType::List.
ListNode(items) == [t |-> "List", items |-> items]

\* NodeType::Record; each RecordEntry is <<field name, value node>>.
RecordNode(entries) == [t |-> "Record", pairs |-> entries]

\* NodeType::Block; `args` are the Idents under BlockArgs (<<>>: no BlockArgs child).
BlockNode(args, body) == [t |-> "Block", args |-> args, body |-> body]

\* NodeType::Apply; each Argument is <<keyword name, value node>>.
ApplyNode(arguments) == [t |-> "Apply", pairs |-> arguments]

RECURSIVE Idents(_)
\* The names consume_pair interns, in the pre-order in which it meets them.
Idents(node) ==
    CASE node.t = "Primitive" -> <<>>
      [] node.t = "Variable" -> node.path
      [] node.t = "List" ->
            Flatten([i \in 1..Len(node.items) |-> Idents(node.items[i])])
      [] node.t = "Block" -> node.args \o Idents(node.body)
      [] OTHER ->
            Flatten([i \in 1..Len(node.pairs) |->
                        <<node.pairs[i][1]>> \o Idents(node.pairs[i][2])])

RECURSIVE Prims(_)
\* The constants consume_pair interns, in pre-order.
Prims(node) ==
    CASE node.t = "Primitive" -> <<node.prim>>
      [] node.t = "Variable" -> <<>>
      [] node.t = "List" ->
            Flatten([i \in 1..Len(node.items) |-> Prims(node.items[i])])
      [] node.t = "Block" -> Prims(node.body)
      [] OTHER ->
            Flatten([i \in 1..Len(node.pairs) |-> Prims(node.pairs[i][2])])

\* SyntaxTree::from_input_and_pair: the symbols start as a copy of the
\* namespace's, the constants empty.
SyntaxTree(ns_symbols, root) ==
    [ nodes     |-> root,
      constants |-> InternAll(<<>>, Prims(root)),
      symbols   |-> InternAll(ns_symbols, Idents(root)) ]

\* ------------------------------------------------- interpreter/emitter.rs

RECURSIVE Emit(_, _)
\* Emitter::recur: the instructions pushed for `node`.  CallFunction carries,
\* besides argc, the keywords of the Apply node it was emitted for: a history
\* field that no step of the machine reads.
Emit(tree, node) ==
    LET sym(name) == Find(tree.symbols, name)
        pairs(ps) == Flatten([i \in 1..Len(ps) |->
                        <<[op |-> "PushKeyword", id |-> sym(ps[i][1])]>>
                            \o Emit(tree, ps[i][2])])
    IN  CASE node.t = "Primitive" ->
                <<[op |-> "PushPrimitive", id |-> Find(tree.constants, node.prim)]>>
          [] node.t = "List" ->
                Flatten([i \in 1..Len(node.items) |-> Emit(tree, node.items[i])])
                    \o <<[op |-> "MkList", size |-> Len(node.items) % U16]>>
          [] node.t = "Record" ->
                pairs(node.pairs)
                    \o <<[op |-> "MkRecord", size |-> Len(node.pairs) % U16]>>
          [] node.t = "Variable" ->
                <<[op |-> "PushVar", id |-> sym(node.path[1])]>>
                    \o [i \in 1..(Len(node.path) - 1) |->
                            [op |-> "PushProp", id |-> sym(node.path[i + 1])]]
          [] node.t = "Block" ->
                LET inner == [i \in 1..Len(node.args) |->
                                  [op |-> "Bind", id |-> sym(node.args[i])]]
                              \o Emit(tree, node.body)
                IN  <<[op |-> "MkBlock", argc |-> Len(node.args) % U8,
                                         skip |-> Len(inner) % U16]>> \o inner
          [] node.t = "Apply" ->
                pairs(node.pairs)
                    \o <<[op |-> "CallFunction", argc |-> Len(node.pairs) % U16,
                          apply |-> [i \in DOMAIN node.pairs |-> node.pairs[i][1]]]>>

\* ---------------------------------------------------------- typing/types.rs

\* The field-less variants of Type: Any, Never, Num, Str, Bool, Time, Money.
Ty(k) == [k |-> k]

\* Type::Var.
TyVar(name) == [k |-> "Var", name |-> name]

\* Type::List / Type::list_of.
TyList(elem) == [k |-> "List", elem |-> elem]

\* Type::Record(partial, fields); a field is [ty, optional] (RecordField).
TyRecord(partial, fields) == [k |-> "Record", partial |-> partial, fields |-> fields]

\* Type::Block / Type::block_from_to.
TyBlock(ins, out) == [k |-> "Block", ins |-> ins, out |-> out]

\* Type::quoted.
Quoted(t) == TyBlock(<<>>, t)

\* ------------------------------- signature.rs, function_builder.rs, namespace.rs

\* What one closure passed to Namespace::define does to its FunctionBuilder:
\* the argument declarations in order (required_arg, optional_arg,
\* variadic_arg), returns (<<>> when never called), is_total, callback
\* (<<>> when never called, else the name of the closure's body).
Builder(args, returns, total, callback) ==
    [args |-> args, returns |-> returns, total |-> total, callback |-> callback]

\* FunctionBuilder::required_arg.
RequiredArg(name, ty) == [name |-> name, ty |-> ty, variadic |-> FALSE, required |-> TRUE]

\* FunctionBuilder::optional_arg.
OptionalArg(name, ty) == [name |-> name, ty |-> ty, variadic |-> FALSE, required |-> FALSE]

\* FunctionBuilder::variadic_arg.
VariadicArg(name, ty) == [name |-> name, ty |-> ty, variadic |-> TRUE, required |-> FALSE]

\* Namespace::new_empty.
NewEmpty == [symbols |-> <<>>, signatures |-> <<>>, callbacks |-> <<>>]

\* An insert that takes any name, defined or not.
InsertAnyway(ns, signature, callback) ==
    LET name == signature.args[1].name
    IN  [ok |-> TRUE,
         ns |-> [ns EXCEPT !.signatures = (name :> signature) @@ @,
                           !.callbacks = (name :> callback) @@ @]]

\* Namespace::insert: refuses a name that already has a signature.
Insert(ns, signature, callback) ==
    LET name == signature.args[1].name
    IN  IF name \in DOMAIN ns.signatures
        THEN [ok |-> FALSE, ns |-> ns]
        ELSE [ok |-> TRUE,
              ns |-> [ns EXCEPT !.signatures = (name :> signature) @@ @,
                                !.callbacks = (name :> callback) @@ @]]

\* Namespace::define with FunctionBuilder::into_parts: the closure interns
\* the argument names into the namespace's own arena while it runs, whatever
\* into_parts and insert say afterwards.  The callback keeps the ids the
\* closure captured.
Define(ns, b) ==
    LET symbols == InternAll(ns.symbols, [i \in DOMAIN b.args |-> b.args[i].name])
        ids == [i \in DOMAIN b.args |-> Find(symbols, b.args[i].name)]
        interned == [ns EXCEPT !.symbols = symbols]
        signature == [args |-> [i \in DOMAIN b.args |->
                                   [b.args[i] EXCEPT !.name = ids[i]]],
                      return_type |-> b.returns[1],
                      total |-> b.total]
    IN  IF b.returns = <<>> \/ b.callback = <<>>
        THEN [ok |-> FALSE, ns |-> interned]
        ELSE Insert(interned, signature, [body |-> b.callback[1], ids |-> ids])

\* Namespace::get_signature(name): <<>> or <<signature>>.
GetSignature(ns, name) ==
    IF Find(ns.symbols, name) \in DOMAIN ns.signatures
    THEN <<ns.signatures[Find(ns.symbols, name)]>> ELSE <<>>

\* Namespace::get_callback(id): <<>> or <<callback>>.
GetCallback(ns, id) ==
    IF id \in DOMAIN ns.callbacks THEN <<ns.callbacks[id]>> ELSE <<>>

\* -------------------------------------------------------------- prelude.rs

\* The closures of prelude::install that the scripts of this model call, in
\* the order of the source (sum, countFrom, upperCase and stringify are left
\* out: no script below calls them).
PreludeBuilders ==
    LET block_type == TyBlock(<<TyVar("In")>>, TyVar("Out"))
    IN  << Builder(<<RequiredArg("crash", Ty("Str"))>>, <<Ty("Any")>>, FALSE, <<"crash">>),
           Builder(<<RequiredArg("not", Ty("Bool"))>>, <<Ty("Bool")>>, FALSE, <<"not">>),
           Builder(<<RequiredArg("if", Ty("Bool")),
                     VariadicArg("and", Quoted(Ty("Bool"))),
                     VariadicArg("or", Quoted(Ty("Bool"))),
                     RequiredArg("then", Quoted(TyVar("A"))),
                     RequiredArg("else", Quoted(TyVar("A")))>>,
                   <<TyVar("A")>>, FALSE, <<"if">>),
           Builder(<<RequiredArg("compare", Ty("Num")),
                     OptionalArg("biggerThan", Ty("Num")),
                     OptionalArg("atLeast", Ty("Num")),
                     OptionalArg("smallerThan", Ty("Num")),
                     OptionalArg("atMost", Ty("Num"))>>,
                   <<Ty("Bool")>>, TRUE, <<"compare">>),
           Builder(<<RequiredArg("each", TyList(TyVar("In"))),
                     RequiredArg("do", block_type)>>,
                   <<TyList(TyVar("Out"))>>, FALSE, <<"each">>),
           Builder(<<RequiredArg("try", Quoted(TyVar("A"))),
                     RequiredArg("or", Quoted(TyVar("A")))>>,
                   <<TyVar("A")>>, FALSE, <<"try">>),
           Builder(<<RequiredArg("calc", Ty("Num")),
                     VariadicArg("plus", Ty("Num")),
                     VariadicArg("subtract", Ty("Num")),
                     VariadicArg("times", Ty("Num")),
                     VariadicArg("dividedBy", Ty("Num"))>>,
                   <<Ty("Num")>>, FALSE, <<"calc">>),
           Builder(<<RequiredArg("with", TyVar("In")),
                     RequiredArg("do", block_type)>>,
                   <<TyVar("Out")>>, FALSE, <<"with">>) >>

RECURSIVE Install(_, _)
\* prelude::install: define after define, each of which must succeed.  (The
\* namespace a define leaves is bound as a value, `defined`, before the next
\* define is applied to it.)
Install(ns, builders) ==
    IF builders = <<>> THEN ns
    ELSE CHOOSE installed \in
            { IF defined.ok THEN Install(defined.ns, Tail(builders)) ELSE ns :
                 defined \in {Define(ns, Head(builders))} } : TRUE

\* Namespace::new_with_prelude.
NewWithPrelude == Install(NewEmpty, PreludeBuilders)

\* Signature::arg: the first declared argument with that name id, <<>> if none.
SigArg(signature, id) ==
    LET hits == {i \in DOMAIN signature.args : signature.args[i].name = id}
    IN  IF hits = {} THEN <<>>
        ELSE <<signature.args[CHOOSE i \in hits : \A j \in hits : i <= j]>>

\* ------------------------------------------- frontend/implicit_blocks.rs

RECURSIVE Rewrite(_, _, _)
\* implicit_blocks::rewrite, on the nested form of the tree: under an Apply
\* whose first keyword names a function with a signature, a value that is
\* not a Block node under a Block-typed argument is wrapped into a Block
\* without arguments, and a Block node without arguments under an argument
\* of another type is replaced by its body.  The nodes are collected from
\* the tree as parsed, so what a wrap or unwrap leaves is not looked at again.
Rewrite(ns, tree, node) ==
    LET sig == GetSignature(ns, node.pairs[1][1])
        each(ps) == [i \in DOMAIN ps |-> <<ps[i][1], Rewrite(ns, tree, ps[i][2])>>]
        arg(p) ==
            LET spec == SigArg(sig[1], Find(tree.symbols, p[1]))
                val == p[2]
            IN  IF spec = <<>> THEN Rewrite(ns, tree, val)
                ELSE IF spec[1].ty.k = "Block" /\ val.t # "Block"
                THEN BlockNode(<<>>, Rewrite(ns, tree, val))
                ELSE IF spec[1].ty.k # "Block" /\ val.t = "Block" /\ val.args = <<>>
                THEN Rewrite(ns, tree, val.body)
                ELSE Rewrite(ns, tree, val)
    IN  CASE node.t = "Apply" ->
                IF sig = <<>> THEN ApplyNode(each(node.pairs))
                ELSE ApplyNode([i \in DOMAIN node.pairs |->
                                   <<node.pairs[i][1], arg(node.pairs[i])>>])
          [] node.t = "Record" -> RecordNode(each(node.pairs))
          [] node.t = "List" ->
                ListNode([i \in DOMAIN node.items |-> Rewrite(ns, tree, node.items[i])])
          [] node.t = "Block" -> BlockNode(node.args, Rewrite(ns, tree, node.body))
          [] OTHER -> node

\* frontend::parse: the tree of the source text, then the rewrite.
Parse(ns, root) ==
    LET tree == SyntaxTree(ns.symbols, root)
    IN  [tree EXCEPT !.nodes = Rewrite(ns, tree, root)]

\* ------------------ frontend/syntax_tree.rs, implicit_blocks.rs: the id tree

\* What pest hands to consume_pair for a node of the nested form: the rule,
\* the text that is interned (a name, or the constant of a literal), the
\* inner pairs, and the span, counted in tokens: `lead` tokens lie between
\* the end of the pair before it (or the start of its parent) and its start,
\* and it is `len` tokens long, closing bracket or brace included.
Pair(rule, str, inner, lead, trailing) ==
    LET RECURSIVE sum(_)
        sum(ps) == IF ps = <<>> THEN 0 ELSE Head(ps).lead + Head(ps).len + sum(Tail(ps))
    IN  [rule |-> rule, str |-> str, inner |-> inner, lead |-> lead,
         len |-> IF inner = <<>> THEN 1 + trailing ELSE sum(inner) + trailing]

RECURSIVE PairOf(_, _)
\* The pair of a term that starts `lead` tokens after what precedes it.
PairOf(node, lead) ==
    LET ident(name, l) == Pair("ident", name, <<>>, l, 0)
    IN  CASE node.t = "Primitive" ->
                Pair(CASE node.prim.k = "Number" -> "number"
                       [] node.prim.k = "String" -> "string"
                       [] node.prim.k = "Boolean" -> "bool",
                     node.prim, <<>>, lead, 0)
          [] node.t = "Variable" ->
                Pair("variable", <<>>,
                     [i \in DOMAIN node.path |->
                         ident(node.path[i], IF i = 1 THEN 0 ELSE 1)], lead, 0)
          [] node.t = "List" ->
                Pair("list", <<>>,
                     [i \in DOMAIN node.items |->
                         PairOf(node.items[i], IF i = 1 THEN 1 ELSE 0)], lead, 1)
          [] node.t = "Record" ->
                Pair("record", <<>>,
                     [i \in DOMAIN node.pairs |->
                         Pair("entry", <<>>,
                              <<ident(node.pairs[i][1], 0), PairOf(node.pairs[i][2], 1)>>,
                              IF i = 1 THEN 1 ELSE 0, 0)], lead, 1)
          [] node.t = "Block" ->
                Pair("block", <<>>,
                     IF node.args = <<>> THEN <<PairOf(node.body, 1)>>
                     ELSE << Pair("block_args", <<>>,
                                  [i \in DOMAIN node.args |-> ident(node.args[i], 0)], 1, 1),
                             PairOf(node.body, 0) >>, lead, 1)
          [] node.t = "Apply" ->
                Pair("apply", <<>>,
                     [i \in DOMAIN node.pairs |->
                         Pair("argument", <<>>,
                              << Pair("keyword", node.pairs[i][1], <<>>, 0, 0),
                                 PairOf(node.pairs[i][2], 0) >>, 0, 0)], lead, 0)

\* NodeData; `id` is the ArenaId of Primitive, Ident and Keyword, None for
\* the other node types.
NodeData(node_type, id, start_pos, end_pos) ==
    [node_type |-> node_type, id |-> id, start_pos |-> start_pos, end_pos |-> end_pos]

\* id_tree: Tree::insert.  A NodeId is the position of the node in `nodes`;
\* parent 0 is InsertBehavior::AsRoot, another is UnderNode, which makes the
\* new node the last child of that node.
TreeInsert(nodes, data, parent) ==
    LET new == Append(nodes, [data |-> data, parent |-> parent, children |-> <<>>,
                              live |-> TRUE])
    IN  IF parent = 0 THEN new
        ELSE [new EXCEPT ![parent].children = Append(@, Len(new))]

RECURSIVE ConsumePair(_, _, _, _)
RECURSIVE ConsumeInner(_, _, _, _)

\* SyntaxTree::consume_pair, the loop over pair.into_inner().
ConsumeInner(tree, inner, parent, cursor) ==
    IF inner = <<>> THEN tree
    ELSE The({ ConsumeInner(consumed, Tail(inner), parent,
                            cursor + Head(inner).lead + Head(inner).len) :
                  consumed \in {ConsumePair(tree, Head(inner), parent,
                                            cursor + Head(inner).lead)} })

\* SyntaxTree::consume_pair: interns what the rule interns, inserts the node
\* and consumes the inner pairs under it.
ConsumePair(tree, pair, parent, start) ==
    LET symbol == pair.rule \in {"ident", "keyword"}
        constant == pair.rule \in {"number", "string", "bool"}
        node_type ==
            CASE pair.rule = "apply" -> "Apply"
              [] pair.rule = "argument" -> "Argument"
              [] pair.rule = "variable" -> "Variable"
              [] pair.rule = "list" -> "List"
              [] pair.rule = "ident" -> "Ident"
              [] pair.rule = "keyword" -> "Keyword"
              [] pair.rule = "record" -> "Record"
              [] pair.rule = "entry" -> "RecordEntry"
              [] pair.rule = "block" -> "Block"
              [] pair.rule = "block_args" -> "BlockArgs"
              [] constant -> "Primitive"
        id == IF symbol THEN InternId(tree.symbols, pair.str)
              ELSE IF constant THEN InternId(tree.constants, pair.str)
              ELSE None
    IN  The({ ConsumeInner(inserted, pair.inner, Len(inserted.nodes), start) :
                 inserted \in {[tree EXCEPT
                    !.symbols = IF symbol THEN Intern(@, pair.str) ELSE @,
                    !.constants = IF constant THEN Intern(@, pair.str) ELSE @,
                    !.nodes = TreeInsert(@, NodeData(node_type, id, start,
                                                     start + pair.len), parent)]} })

\* SyntaxTree::from_input_and_pair with the nodes as the id tree holds them.
FromInputAndPair(ns_symbols, pair) ==
    ConsumePair([nodes |-> <<>>, root |-> 1, constants |-> <<>>, symbols |-> ns_symbols],
                pair, 0, 0)

RECURSIVE PreOrder(_, _)
\* SyntaxTree::traverse (Tree::traverse_pre_order) from the node `id`.
PreOrder(nodes, id) ==
    <<id>> \o Flatten([i \in DOMAIN nodes[id].children |->
                          PreOrder(nodes, nodes[id].children[i])])

RECURSIVE IsUnder(_, _, _)
\* id_tree: `lower` is a descendant of `upper`.
IsUnder(nodes, lower, upper) ==
    /\ nodes[lower].parent # 0
    /\ \/ nodes[lower].parent = upper
       \/ IsUnder(nodes, nodes[lower].parent, upper)

\* Vec of children with `old` replaced by `new` where it stands.
ReplaceChild(children, old, new) ==
    [i \in DOMAIN children |-> IF children[i] = old THEN new ELSE children[i]]

\* id_tree: Tree::swap_nodes with SwapBehavior::TakeChildren.  When one node
\* is a descendant of the other, the lower one is detached from its parent
\* and takes the place of the upper one, which becomes its last child; else
\* the two subtrees change places.
SwapNodes(tree, first_id, second_id) ==
    LET nodes == tree.nodes
        nested == IsUnder(nodes, first_id, second_id) \/ IsUnder(nodes, second_id, first_id)
        lower == IF IsUnder(nodes, first_id, second_id) THEN first_id ELSE second_id
        upper == IF lower = first_id THEN second_id ELSE first_id
        upper_parent == nodes[upper].parent
        detached == [nodes EXCEPT ![nodes[lower].parent].children =
                        SelectSeq(@, LAMBDA c : c # lower)]
        placed == IF upper_parent = 0 THEN detached
                  ELSE [detached EXCEPT ![upper_parent].children =
                            ReplaceChild(@, upper, lower)]
        first_parent == nodes[first_id].parent
        second_parent == nodes[second_id].parent
        exchanged(ns) ==
            [i \in DOMAIN ns |->
                [ns[i] EXCEPT !.children =
                    [j \in DOMAIN @ |-> IF @[j] = first_id THEN second_id
                                        ELSE IF @[j] = second_id THEN first_id
                                        ELSE @[j]]]]
    IN  IF nested
        THEN [tree EXCEPT
                !.root = IF upper_parent = 0 THEN lower ELSE @,
                !.nodes = [placed EXCEPT ![lower].parent = upper_parent,
                                         ![lower].children = Append(@, upper),
                                         ![upper].parent = lower]]
        ELSE [tree EXCEPT
                !.nodes = [exchanged(nodes) EXCEPT ![first_id].parent = second_parent,
                                                   ![second_id].parent = first_parent]]

\* id_tree: Tree::remove_node with RemoveBehavior::DropChildren: the node
\* and all below it leave the tree.
RemoveNode(tree, node_id) ==
    LET nodes == tree.nodes
        dropped == {node_id} \cup {i \in DOMAIN nodes : IsUnder(nodes, i, node_id)}
    IN  [tree EXCEPT !.nodes =
            [i \in DOMAIN nodes |->
                IF i \in dropped THEN [nodes[i] EXCEPT !.live = FALSE]
                ELSE IF i = nodes[node_id].parent
                THEN [nodes[i] EXCEPT !.children = SelectSeq(@, LAMBDA c : c # node_id)]
                ELSE nodes[i]]]

\* implicit_blocks::rewrite, the traversal: what the Apply node `id` adds to
\* nodes_to_wrap and nodes_to_unwrap.  The function is looked up by the text
\* of the first keyword; an argument whose keyword the signature does not
\* declare is skipped.
CollectApply(ns, tree, id) ==
    LET nodes == tree.nodes
        children == nodes[id].children
        keyword(arg) == nodes[nodes[arg].children[1]].data.id
        value(arg) == nodes[arg].children[2]
        signature == GetSignature(ns, Resolve(tree.symbols, keyword(children[1])))
        declared(arg) == SigArg(signature[1], keyword(arg))
        to_wrap(arg) ==
            /\ declared(arg) # <<>>
            /\ declared(arg)[1].ty.k = "Block"
            /\ nodes[value(arg)].data.node_type # "Block"
        to_unwrap(arg) ==
            /\ declared(arg) # <<>>
            /\ declared(arg)[1].ty.k # "Block"
            /\ nodes[value(arg)].data.node_type = "Block"
            /\ Len(nodes[value(arg)].children) = 1
        values(keep(_)) ==
            [i \in DOMAIN SelectSeq(children, keep) |-> value(SelectSeq(children, keep)[i])]
    IN  IF signature = <<>> THEN [wrap |-> <<>>, unwrap |-> <<>>]
        ELSE [wrap |-> values(to_wrap), unwrap |-> values(to_unwrap)]

\* implicit_blocks::rewrite, the traversal as a whole: nodes_to_wrap and
\* nodes_to_unwrap, in pre-order.
Collect(ns, tree) ==
    LET applies == SelectSeq(PreOrder(tree.nodes, tree.root),
                             LAMBDA id : tree.nodes[id].data.node_type = "Apply")
        found == [i \in DOMAIN applies |-> CollectApply(ns, tree, applies[i])]
    IN  [wrap |-> Flatten([i \in DOMAIN found |-> found[i].wrap]),
         unwrap |-> Flatten([i \in DOMAIN found |-> found[i].unwrap])]

\* A wrap that leaves the new Block node where it was inserted.
WrapUnder(tree, node_id) ==
    [tree EXCEPT !.nodes =
        TreeInsert(@, NodeData("Block", None, @[node_id].data.start_pos,
                               @[node_id].data.end_pos), node_id)]

\* implicit_blocks::rewrite, one round of the wrap loop: a Block node with
\* the span of the node is inserted under it, and the two are swapped.
WrapNode(tree, node_id) ==
    The({ SwapNodes(inserted, node_id, Len(inserted.nodes)) :
             inserted \in {[tree EXCEPT !.nodes =
                TreeInsert(@, NodeData("Block", None, @[node_id].data.start_pos,
                                       @[node_id].data.end_pos), node_id)]} })

\* An unwrap without the remove_node.
UnwrapKeeping(tree, node_id) ==
    SwapNodes(tree, node_id, tree.nodes[node_id].children[1])

\* implicit_blocks::rewrite, one round of the unwrap loop: the Block node is
\* swapped with its first child, and then removed.
UnwrapNode(tree, node_id) ==
    The({ RemoveNode(swapped, node_id) :
             swapped \in {SwapNodes(tree, node_id, tree.nodes[node_id].children[1])} })

RECURSIVE WrapAll(_, _)
\* implicit_blocks::rewrite, the wrap loop.
WrapAll(tree, node_ids) ==
    IF node_ids = <<>> THEN tree
    ELSE The({ WrapAll(wrapped, Tail(node_ids)) :
                  wrapped \in {WrapNode(tree, Head(node_ids))} })

RECURSIVE UnwrapAll(_, _)
\* implicit_blocks::rewrite, the unwrap loop.
UnwrapAll(tree, node_ids) ==
    IF node_ids = <<>> THEN tree
    ELSE The({ UnwrapAll(unwrapped, Tail(node_ids)) :
                  unwrapped \in {UnwrapNode(tree, Head(node_ids))} })

\* implicit_blocks::rewrite on the id tree.
RewriteTree(ns, tree) ==
    The({ UnwrapAll(WrapAll(tree, found.wrap), found.unwrap) :
             found \in {Collect(ns, tree)} })

RECURSIVE Nested(_, _)
\* The nested form of the subtree at `id`, read off the id tree the way the
\* type checker and the emitter read it: an Argument and a RecordEntry by
\* their first two children, a Block by its last child and, when it has two,
\* the Idents of the first.
Nested(tree, id) ==
    LET node == tree.nodes[id]
        child(i) == node.children[i]
        name(i) == Resolve(tree.symbols, tree.nodes[i].data.id)
        entries == [i \in DOMAIN node.children |->
                       << name(tree.nodes[child(i)].children[1]),
                          Nested(tree, tree.nodes[child(i)].children[2]) >>]
    IN  CASE node.data.node_type = "Primitive" ->
                PrimitiveNode(Resolve(tree.constants, node.data.id))
          [] node.data.node_type = "Variable" ->
                VariableNode([i \in DOMAIN node.children |-> name(child(i))])
          [] node.data.node_type = "List" ->
                ListNode([i \in DOMAIN node.children |-> Nested(tree, child(i))])
          [] node.data.node_type = "Record" -> RecordNode(entries)
          [] node.data.node_type = "Apply" -> ApplyNode(entries)
          [] node.data.node_type = "Block" ->
                IF Len(node.children) > 1
                THEN BlockNode([i \in DOMAIN tree.nodes[child(1)].children |->
                                   name(tree.nodes[child(1)].children[i])],
                               Nested(tree, child(2)))
                ELSE BlockNode(<<>>, Nested(tree, child(1)))

\* ------------------------------------ typing/types.rs, substitution.rs

RECURSIVE ApplySubstitution(_, _)
\* Type::apply_substitution: one pass; what a variable is replaced by is not
\* looked into again.
ApplySubstitution(ty, subs) ==
    CASE ty.k = "Block" ->
            TyBlock([i \in DOMAIN ty.ins |-> ApplySubstitution(ty.ins[i], subs)],
                    ApplySubstitution(ty.out, subs))
      [] ty.k = "Record" ->
            TyRecord(ty.partial,
                     [n \in DOMAIN ty.fields |->
                         [ty |-> ApplySubstitution(ty.fields[n].ty, subs),
                          optional |-> ty.fields[n].optional]])
      [] ty.k = "Var" -> IF ty.name \in DOMAIN subs THEN subs[ty.name] ELSE ty
      [] ty.k = "List" -> TyList(ApplySubstitution(ty.elem, subs))
      [] OTHER -> ty

RECURSIVE FreeVars(_)
\* Type::free_vars (None is the empty set here).
FreeVars(ty) ==
    CASE ty.k = "Block" ->
            UNION {FreeVars(ty.ins[i]) : i \in DOMAIN ty.ins} \cup FreeVars(ty.out)
      [] ty.k = "Var" -> {ty.name}
      [] ty.k = "List" -> FreeVars(ty.elem)
      [] ty.k = "Record" -> UNION {FreeVars(ty.fields[n].ty) : n \in DOMAIN ty.fields}
      [] OTHER -> {}

\* The order in which a HashSet or HashMap with the keys `keys` hands them
\* out, when `h` lists every possible key in the order of its hash.
Iterate(keys, h) == SelectSeq(h, LAMBDA key : key \in keys)

\* ------------------------------------------ typing/constraint_generator.rs

\* The n-th type variable of FreshVarSupply.
Fresh(n) == TyVar("$" \o ToString(n))

\* Prim::type_of.
TypeOf(prim) ==
    CASE prim.k = "Number" -> Ty("Num")
      [] prim.k = "String" -> Ty("Str")
      [] prim.k = "Boolean" -> Ty("Bool")

\* An add_constraint that takes the two types the other way round.
AddConstraintSwapped(g, ty1, ty2) ==
    [g EXCEPT !.constraints = Append(@, <<ty2, ty1>>)]

\* ConstraintGenerator::add_constraint; g is the generator with the root
\* frame of the type environment: [count, root, constraints, errors].
AddConstraint(g, ty1, ty2) == [g EXCEPT !.constraints = Append(@, <<ty1, ty2>>)]

\* ConstraintGenerator::recur, Apply arm: the local substitution that gives
\* each type variable of the signature's arguments a fresh variable, the
\* variables taken in the order of the HashSet.
SigSubst(sig, count, h) ==
    LET vars == UNION {FreeVars(sig.args[i].ty) : i \in DOMAIN sig.args}
    IN  [v \in vars |->
            Fresh(count + CHOOSE i \in 1..Len(Iterate(vars, h)) : Iterate(vars, h)[i] = v)]

RECURSIVE Recur(_, _, _, _)
RECURSIVE ListLoop(_, _, _, _, _)
RECURSIVE RecordLoop(_, _, _, _, _)
RECURSIVE ApplyLoop(_, _, _, _, _, _)

\* ConstraintGenerator::recur, the loop of the List arm.
ListLoop(ctx, items, elem_type_var, env, g) ==
    IF items = <<>> THEN g
    ELSE The({ ListLoop(ctx, Tail(items), elem_type_var, env,
                        AddConstraint(elem.g, elem_type_var, elem.ty)) :
                  elem \in {Recur(ctx, Head(items), env, g)} })

\* ConstraintGenerator::recur, the loop of the Record arm.
RecordLoop(ctx, entries, env, g, field_types) ==
    IF entries = <<>> THEN [g |-> g, field_types |-> field_types]
    ELSE The({ RecordLoop(ctx, Tail(entries), env, field.g,
                    (Head(entries)[1] :> [ty |-> field.ty, optional |-> FALSE])
                        @@ field_types) :
                  field \in {Recur(ctx, Head(entries)[2], env, g)} })

\* ConstraintGenerator::recur, the loop of the Apply arm over the arguments.
ApplyLoop(ctx, sig, sig_subst, arguments, env, g) ==
    IF arguments = <<>> THEN g
    ELSE The({ The({ ApplyLoop(ctx, sig, sig_subst, Tail(arguments), env,
                        AddConstraint(stx.g, stx.ty,
                            ApplySubstitution(
                                IF spec # <<>> THEN spec[1].ty ELSE Ty("Any"),
                                sig_subst))) :
                     stx \in {Recur(ctx, Head(arguments)[2], env,
                                IF spec # <<>> THEN g
                                ELSE [g EXCEPT !.errors =
                                        Append(@, [problem |-> "UnknownKeyword"])])} }) :
                  spec \in {SigArg(sig, Find(ctx.tree.symbols, Head(arguments)[1]))} })

\* ConstraintGenerator::recur: the type of `node` and the generator after
\* the visit.  env holds the parameters of the enclosing blocks (the frames
\* under the root of the Scope, inner ones shadowing outer ones).
Recur(ctx, node, env, g) ==
    CASE node.t = "Primitive" -> [ty |-> TypeOf(node.prim), g |-> g]
      [] node.t = "List" ->
            [ty |-> TyList(Fresh(g.count + 1)),
             g |-> ListLoop(ctx, node.items, Fresh(g.count + 1), env,
                            [g EXCEPT !.count = @ + 1])]
      [] node.t = "Record" ->
            The({ [ty |-> TyRecord(FALSE, r.field_types), g |-> r.g] :
                     r \in {RecordLoop(ctx, node.pairs, env, g, <<>>)} })
      [] node.t = "Variable" ->
            LET root_name == node.path[1]
                known == root_name \in DOMAIN env \/ root_name \in DOMAIN g.root
                g1 == IF known THEN g
                      ELSE [g EXCEPT !.count = @ + 1,
                                     !.root = (root_name :> Fresh(g.count + 1)) @@ @]
                root_ty == IF root_name \in DOMAIN env THEN env[root_name]
                           ELSE g1.root[root_name]
                n == Len(node.path) - 1
                c == IF known THEN g.count ELSE g.count + 1
                segments == [j \in 1..n |->
                    << Fresh(c + 1 + j),
                       TyRecord(TRUE, (node.path[n + 2 - j] :>
                           [ty |-> Fresh(c + j), optional |-> FALSE])) >>]
            IN  IF n = 0 THEN [ty |-> root_ty, g |-> g1]
                ELSE [ty |-> Fresh(c + 1),
                      g |-> [g1 EXCEPT !.count = c + 1 + n,
                                !.constraints = @ \o segments
                                    \o << <<root_ty, Fresh(c + 1 + n)>> >>]]
      [] node.t = "Block" ->
            LET k == Len(node.args)
                in_types == [i \in 1..k |-> Fresh(g.count + i)]
                names == {node.args[i] : i \in 1..k}
                last(name) == CHOOSE i \in 1..k :
                    /\ node.args[i] = name
                    /\ \A j \in 1..k : node.args[j] = name => j <= i
                local_env == [name \in DOMAIN env \cup names |->
                    IF name \in names THEN in_types[last(name)] ELSE env[name]]
            IN  The({ [ty |-> TyBlock(in_types, body.ty), g |-> body.g] :
                         body \in {Recur(ctx, node.body, local_env,
                                         [g EXCEPT !.count = @ + k])} })
      [] node.t = "Apply" ->
            The({ IF found = <<>>
                  THEN [ty |-> Ty("Any"),
                        g |-> [g EXCEPT !.errors =
                                  Append(@, [problem |-> "UnknownFunction"])]]
                  ELSE The({ The({ [ty |-> Fresh(g1.count + 1),
                                    g |-> AddConstraint([g1 EXCEPT !.count = @ + 1],
                                             Fresh(g1.count + 1),
                                             ApplySubstitution(found[1].return_type,
                                                               sig_subst))] :
                                   g1 \in {ApplyLoop(ctx, found[1], sig_subst, node.pairs,
                                              env, [g EXCEPT !.count =
                                                      @ + Cardinality(DOMAIN sig_subst)])} }) :
                             sig_subst \in {SigSubst(found[1], g.count, ctx.h)} }) :
                     found \in {GetSignature(ctx.ns, node.pairs[1][1])} })

\* ConstraintGenerator::sort_constraints: a stable sort by the number of
\* free variables of the left side plus that of the right side.
SortConstraints(constraints) ==
    LET key(c) == Cardinality(FreeVars(c[1])) + Cardinality(FreeVars(c[2]))
        keys == {key(constraints[i]) : i \in DOMAIN constraints}
        RECURSIVE upto(_)
        upto(n) == IF n < 0 THEN <<>>
                   ELSE upto(n - 1) \o SelectSeq(constraints, LAMBDA c : key(c) = n)
    IN  IF keys = {} THEN <<>>
        ELSE upto(CHOOSE n \in keys : \A m \in keys : m <= n)

\* constraint_generator::generate with an empty initial environment.
Generate(ns, tree, h) ==
    The({ [inferred_type |-> r.ty, root |-> r.g.root,
           constraints |-> SortConstraints(r.g.constraints), errors |-> r.g.errors] :
             r \in {Recur([ns |-> ns, tree |-> tree, h |-> h], tree.nodes, <<>>,
                          [count |-> 0, root |-> <<>>, constraints |-> <<>>,
                           errors |-> <<>>])} })

\* --------------------------------------------- typing/constraint_solver.rs

\* Most Unifier::recur calls, one inside the other, that the stack of the
\* thread has room for.  No type of this model has more levels than that
\* unless the substitution leads from a variable back to itself.
StackDepth == 6

\* A solver that lets a block take more inputs than are offered.
AddProblemButArity(u, problem) ==
    IF problem.problem = "BlockArity" THEN u ELSE [u EXCEPT !.errors = Append(@, problem)]

\* Unifier::add_problem; u is what the unifiers share: subst, errors (the
\* problems, without path and location) and path, and whether the thread
\* has run out of stack, which ends the process.
AddProblem(u, problem) == [u EXCEPT !.errors = Append(@, problem)]

\* A bind that keeps only the binding it makes.
BindForgets(var_name, ty, u) ==
    LET typ == ApplySubstitution(ty, u.subst)
    IN  IF var_name \in FreeVars(ty)
        THEN [ty |-> ty,
              u |-> [u EXCEPT !.errors = Append(@, [problem |-> "InfiniteType",
                                                    name |-> var_name, ty |-> ty])]]
        ELSE IF var_name \in DOMAIN u.subst /\ u.subst[var_name] # typ
        THEN [ty |-> u.subst[var_name],
              u |-> [u EXCEPT !.errors = Append(@, [problem |-> "AlreadyBound",
                                                    name |-> var_name,
                                                    old |-> u.subst[var_name],
                                                    new |-> ty])]]
        ELSE [ty |-> typ, u |-> [u EXCEPT !.subst = (var_name :> typ)]]

\* A bind that leaves a variable unbound when the other side is Any.
BindUnlessAny(var_name, ty, u) ==
    LET typ == ApplySubstitution(ty, u.subst)
    IN  IF ty = Ty("Any")
        THEN [ty |-> ty, u |-> u]
        ELSE IF var_name \in FreeVars(ty)
        THEN [ty |-> ty,
              u |-> [u EXCEPT !.errors = Append(@, [problem |-> "InfiniteType",
                                                    name |-> var_name, ty |-> ty])]]
        ELSE IF var_name \in DOMAIN u.subst /\ u.subst[var_name] # typ
        THEN [ty |-> u.subst[var_name],
              u |-> [u EXCEPT !.errors = Append(@, [problem |-> "AlreadyBound",
                                                    name |-> var_name,
                                                    old |-> u.subst[var_name],
                                                    new |-> ty])]]
        ELSE [ty |-> typ, u |-> [u EXCEPT !.subst = (var_name :> typ) @@ @]]

\* Unifier::bind: the occurs check looks at `ty` as it is; the type stored is
\* `ty` after one more pass of the substitution.
BindVar(var_name, ty, u) ==
    LET typ == ApplySubstitution(ty, u.subst)
    IN  IF var_name \in FreeVars(ty)
        THEN [ty |-> ty,
              u |-> AddProblem(u, [problem |-> "InfiniteType", name |-> var_name, ty |-> ty])]
        ELSE IF var_name \in DOMAIN u.subst /\ u.subst[var_name] # typ
        THEN [ty |-> u.subst[var_name],
              u |-> AddProblem(u, [problem |-> "AlreadyBound", name |-> var_name,
                                   old |-> u.subst[var_name], new |-> ty])]
        ELSE [ty |-> typ, u |-> [u EXCEPT !.subst = (var_name :> typ) @@ @]]

\* Unifier::rebind: each side of the constraint (as it was given to this
\* unifier) that is a variable is pointed at the merged record.
Rebind(left, right, new_type, u) ==
    LET step(v, w) ==
            IF w.k # "Var" THEN v
            ELSE IF w.name \in FreeVars(new_type)
            THEN AddProblem(v, [problem |-> "InfiniteType", name |-> w.name, ty |-> new_type])
            ELSE IF w.name \notin DOMAIN v.subst
            THEN AddProblem(v, [problem |-> "RebindUndefined", name |-> w.name])
            ELSE [v EXCEPT !.subst = (w.name :> new_type) @@ @]
    IN  [ty |-> new_type, u |-> step(step(u, left), right)]

RECURSIVE Unify(_, _, _, _)
RECURSIVE UnifierRecur(_, _, _, _, _)
RECURSIVE FieldLoop(_, _, _, _, _)
RECURSIVE InputLoop(_, _, _, _, _)

\* Unifier::recur: the location is pushed on the path, a child unifier
\* unifies `left` and `right`, the location is popped.
UnifierRecur(loc, left, right, u, h) ==
    IF u.overflow \/ Len(u.path) >= StackDepth
    THEN [ty |-> left, u |-> [u EXCEPT !.overflow = TRUE]]
    ELSE The({ [ty |-> child.ty, u |-> [child.u EXCEPT !.path = u.path]] :
                  child \in {Unify(left, right, [u EXCEPT !.path = Append(@, loc)], h)} })

\* Unifier::unify, Record x Record: the loop over the fields of the left
\* side, `names` being those still to do.  acc = [u, fields].
FieldLoop(names, left, right, acc, h) ==
    IF names = <<>> THEN acc
    ELSE IF Head(names) \notin DOMAIN right.fields
    THEN FieldLoop(Tail(names), left, right,
            IF ~left.fields[Head(names)].optional /\ ~right.partial
            THEN [acc EXCEPT !.u = AddProblem(@,
                        [problem |-> "FieldMissing", name |-> Head(names)])]
            ELSE [acc EXCEPT !.fields = (Head(names) :>
                        [ty |-> ApplySubstitution(left.fields[Head(names)].ty,
                                                  acc.u.subst),
                         optional |-> left.fields[Head(names)].optional]) @@ @],
            h)
    ELSE The({ FieldLoop(Tail(names), left, right,
                  [u |-> new.u,
                   fields |-> (Head(names) :>
                                 [ty |-> new.ty,
                                  optional |-> left.fields[Head(names)].optional])
                              @@ acc.fields],
                  h) :
               new \in {UnifierRecur(<<"Field", Head(names)>>,
                           left.fields[Head(names)].ty, right.fields[Head(names)].ty,
                           IF /\ ~left.fields[Head(names)].optional
                              /\ right.fields[Head(names)].optional
                           THEN AddProblem(acc.u, [problem |-> "FieldOptional",
                                                   name |-> Head(names)])
                           ELSE acc.u,
                           h)} })

\* Unifier::unify, Block x Block: the loop over the zipped inputs, from the
\* i-th on; the sides are swapped for an input.  acc = [u, inputs].
InputLoop(i, left_in, right_in, acc, h) ==
    IF i > Len(left_in) \/ i > Len(right_in) THEN acc
    ELSE The({ InputLoop(i + 1, left_in, right_in,
                  [u |-> in_ty.u, inputs |-> Append(acc.inputs, in_ty.ty)], h) :
               in_ty \in {UnifierRecur(<<"BlockArg", i - 1>>, right_in[i], left_in[i],
                                       acc.u, h)} })

\* Unifier::unify for the constraint self.left ~ self.right.
Unify(self_left, self_right, u, h) ==
    The({ IF left = right THEN [ty |-> left, u |-> u]
          ELSE IF right.k = "Var" THEN BindVar(right.name, left, u)
          ELSE IF left.k = "Var" THEN BindVar(left.name, right, u)
          ELSE IF left.k = "List" /\ right.k = "List"
          THEN UnifierRecur(<<"ListElement">>, left.elem, right.elem, u, h)
          ELSE IF left.k = "Record" /\ right.k = "Record"
          THEN The({ Rebind(self_left, self_right,
                        TyRecord(left.partial,
                            IF left.partial
                            THEN [name \in DOMAIN right.fields \ DOMAIN left.fields |->
                                    [ty |-> ApplySubstitution(right.fields[name].ty,
                                                              merged.u.subst),
                                     optional |-> right.fields[name].optional]]
                                 @@ merged.fields
                            ELSE merged.fields),
                        merged.u) :
                     merged \in {FieldLoop(Iterate(DOMAIN left.fields, h), left, right,
                                           [u |-> u, fields |-> <<>>], h)} })
          ELSE IF left.k = "Block" /\ right.k = "Block"
          THEN The({ The({ [ty |-> TyBlock(inputs.inputs, body.ty), u |-> body.u] :
                           body \in {UnifierRecur(<<"BlockBody">>, left.out, right.out,
                                                  inputs.u, h)} }) :
                     inputs \in {InputLoop(1, left.ins, right.ins,
                                    [u |-> IF Len(left.ins) > Len(right.ins)
                                           THEN AddProblem(u, [problem |-> "BlockArity",
                                                    expected |-> Len(right.ins),
                                                    actual |-> Len(left.ins)])
                                           ELSE u,
                                     inputs |-> <<>>], h)} })
          ELSE IF left.k = "Any" \/ right.k = "Any" THEN [ty |-> Ty("Any"), u |-> u]
          ELSE [ty |-> left,
                u |-> AddProblem(u, [problem |-> "Incompatible",
                                     left |-> left, right |-> right])] :
             left \in {ApplySubstitution(self_left, u.subst)},
             right \in {ApplySubstitution(self_right, u.subst)} })

RECURSIVE UnifyAll(_, _, _)
\* solve, the loop over the constraints.
UnifyAll(constraints, u, h) ==
    IF constraints = <<>> \/ u.overflow THEN u
    ELSE The({ UnifyAll(Tail(constraints), done.u, h) :
                  done \in {Unify(Head(constraints)[1], Head(constraints)[2], u, h)} })

\* A finalize_record that closes the record itself and leaves its fields.
FinalizeShallow(ty) ==
    IF ty.k = "Record" THEN TyRecord(FALSE, ty.fields) ELSE ty

RECURSIVE FinalizeRecord(_)
\* minimize_substitution::finalize_record: closes a partial record and its
\* fields, and looks into lists; a closed record or a block is left as it is.
FinalizeRecord(ty) ==
    IF ty.k = "Record" /\ ty.partial
    THEN TyRecord(FALSE, [name \in DOMAIN ty.fields |->
                             [ty |-> FinalizeRecord(ty.fields[name].ty),
                              optional |-> ty.fields[name].optional]])
    ELSE IF ty.k = "List" THEN TyList(FinalizeRecord(ty.elem))
    ELSE ty

RECURSIVE Settle(_, _, _)
\* minimize_substitution, the inner loop: the substitution is applied until
\* the type no longer changes.  A type that still changes after as many
\* passes as there are bindings is on a cycle of bindings, and the loop
\* never ends: <<>>.
Settle(next_type, subst, passes) ==
    The({ IF next_type = next_next_type THEN <<next_type>>
          ELSE IF passes > Cardinality(DOMAIN subst) THEN <<>>
          ELSE Settle(next_next_type, subst, passes + 1) :
             next_next_type \in {ApplySubstitution(next_type, subst)} })

\* minimize_substitution, one pass of the outer loop over the bindings:
\*   infinite: those for which it returns Err;
\*   progress: those replaced by what their variable is bound to;
\*   settled:  for the others, what the inner loop ends with, if it ends.
MinimizePass(subst) ==
    LET alias(v) == subst[v].k = "Var" /\ subst[v].name \in DOMAIN subst
        infinite == {v \in DOMAIN subst :
                        alias(v) /\ v \in FreeVars(subst[subst[v].name])}
    IN  [infinite |-> infinite,
         progress |-> {v \in DOMAIN subst : alias(v)} \ infinite,
         settled |-> [v \in {w \in DOMAIN subst : ~alias(w)} |->
                        Settle(ApplySubstitution(subst[v], subst), subst, 1)]]

RECURSIVE MinimizeSubstitution(_, _)
\* minimize_substitution.  The pass over the bindings goes in the order of
\* the HashMap: when one binding makes it return Err and another makes the
\* inner loop run for ever, either can come first, so both ends are
\* possible.  `rounds` counts the passes of the outer loop; no substitution
\* of this model needs more of them than it has bindings.
MinimizeSubstitution(subst, rounds) ==
    The({ IF pass.infinite # {} \/ \E v \in DOMAIN pass.settled : pass.settled[v] = <<>>
          THEN [ends |-> {"panic" : v \in pass.infinite} \cup
                         {"never" : v \in {w \in DOMAIN pass.settled :
                                              pass.settled[w] = <<>>}},
                subst |-> subst]
          ELSE The({ IF pass.progress = {} THEN [ends |-> {"ok"}, subst |-> next_subst]
                     ELSE IF rounds > Cardinality(DOMAIN subst) + 1
                     THEN [ends |-> {"rounds"}, subst |-> next_subst]
                     ELSE MinimizeSubstitution(next_subst, rounds + 1) :
                        next_subst \in {[v \in DOMAIN subst |->
                            FinalizeRecord(IF v \in pass.progress
                                THEN ApplySubstitution(subst[subst[v].name], subst)
                                ELSE pass.settled[v][1])]} }) :
             pass \in {MinimizePass(subst)} })

\* typing::type_of with no globals, with solve: how the call can end (the
\* unwrap in solve panics on Err; a unify that runs out of stack aborts the
\* process), and the result if it returns.
TypeCheck(ns, tree, h) ==
    The({ The({ The({ [ends |-> IF unified.overflow THEN {"abort"} ELSE minimized.ends,
                       inputs |-> [name \in DOMAIN generated.root |->
                            ApplySubstitution(generated.root[name], minimized.subst)],
                       output |-> ApplySubstitution(generated.inferred_type,
                                                    minimized.subst),
                       errors |-> unified.errors] :
                      minimized \in {IF generated.constraints = <<>> \/ unified.overflow
                                     THEN [ends |-> {"ok"}, subst |-> <<>>]
                                     ELSE MinimizeSubstitution(unified.subst, 1)} }) :
                unified \in {UnifyAll(generated.constraints,
                                [subst |-> <<>>, errors |-> generated.errors,
                                 path |-> <<>>, overflow |-> FALSE], h)} }) :
          generated \in {Generate(ns, tree, h)} })

\* ------------------------------------------------------------ the universe

\* Most Namespace::define calls the host makes after new_with_prelude.
MaxDefines == 1

\* Source texts the host compiles, as the trees the grammar gives them.
Programs ==
    LET num(n) == PrimitiveNode(NumV(n))
        str(t) == PrimitiveNode(StrV(t))
        bool(b) == PrimitiveNode(BoolV(b))
        var(name) == VariableNode(<<name>>)
        crash == ApplyNode(<< <<"crash", str("x")>> >>)
    IN  [ \* 1
          lit |-> num(1),
          \* { 1 }
          blk |-> BlockNode(<<>>, num(1)),
          \* try: { 1 } or: { 2 }
          try_ok |-> ApplyNode(<< <<"try", BlockNode(<<>>, num(1))>>,
                                  <<"or", BlockNode(<<>>, num(2))>> >>),
          \* try: { crash: "x" } or: { 1 }
          try_crash |-> ApplyNode(<< <<"try", BlockNode(<<>>, crash)>>,
                                     <<"or", BlockNode(<<>>, num(1))>> >>),
          \* [1 try: { x => 2 } or: { 3 }]
          try_arity |-> ListNode(<< num(1),
                           ApplyNode(<< <<"try", BlockNode(<<"x">>, num(2))>>,
                                        <<"or", BlockNode(<<>>, num(3))>> >>) >>),
          \* not: try: { crash: "x" } or: { true }
          not_try |-> ApplyNode(<< <<"not",
                           ApplyNode(<< <<"try", BlockNode(<<>>, crash)>>,
                                        <<"or", BlockNode(<<>>, bool(TRUE))>> >>)>> >>),
          \* [x with: 2 do: { x => x } x]
          shadow |-> ListNode(<< var("x"),
                           ApplyNode(<< <<"with", num(2)>>,
                                        <<"do", BlockNode(<<"x">>, var("x"))>> >>),
                           var("x") >>),
          \* zap: true
          zap |-> ApplyNode(<< <<"zap", bool(TRUE)>> >>),
          \* with: [a = 1] do: { r => r.b }
          with_b |-> ApplyNode(<< <<"with", RecordNode(<< <<"a", num(1)>> >>)>>,
                                  <<"do", BlockNode(<<"r">>, VariableNode(<<"r", "b">>))>> >>),
          \* pipe: [a = 1] do: { r => r.b }
          pipe_b |-> ApplyNode(<< <<"pipe", RecordNode(<< <<"a", num(1)>> >>)>>,
                                  <<"do", BlockNode(<<"r">>, VariableNode(<<"r", "b">>))>> >>),
          \* each: [1 2] do: { i => calc: i plus: 1 times: 2 }
          each_calc |-> ApplyNode(<< <<"each", ListNode(<<num(1), num(2)>>)>>,
                           <<"do", BlockNode(<<"i">>,
                               ApplyNode(<< <<"calc", var("i")>>, <<"plus", num(1)>>,
                                            <<"times", num(2)>> >>))>> >>),
          \* if: compare: x atLeast: 1 and: false or: true then: 1 else: 2
          if_cmp |-> ApplyNode(<< <<"if", ApplyNode(<< <<"compare", var("x")>>,
                                                       <<"atLeast", num(1)>> >>)>>,
                                  <<"and", bool(FALSE)>>, <<"or", bool(TRUE)>>,
                                  <<"then", num(1)>>, <<"else", num(2)>> >>),
          \* x.a
          prop |-> VariableNode(<<"x", "a">>),
          \* if: true then: 1 else: 2
          if_plain |-> ApplyNode(<< <<"if", bool(TRUE)>>, <<"then", num(1)>>,
                                    <<"else", num(2)>> >>),
          \* if: true then: { 1 } else: { 2 }
          if_blocks |-> ApplyNode(<< <<"if", bool(TRUE)>>,
                                     <<"then", BlockNode(<<>>, num(1))>>,
                                     <<"else", BlockNode(<<>>, num(2))>> >>),
          \* try: not: { true } or: false
          try_not |-> ApplyNode(<< <<"try", ApplyNode(<< <<"not",
                                               BlockNode(<<>>, bool(TRUE))>> >>)>>,
                                   <<"or", bool(FALSE)>> >>),
          \* if: { true } then: { 1 } else: { 2 }
          if_redundant |-> ApplyNode(<< <<"if", BlockNode(<<>>, bool(TRUE))>>,
                                        <<"then", BlockNode(<<>>, num(1))>>,
                                        <<"else", BlockNode(<<>>, num(2))>> >>),
          \* not: { x => true }
          not_args |-> ApplyNode(<< <<"not", BlockNode(<<"x">>, bool(TRUE))>> >>),
          \* not: { { true } }
          not_twice |-> ApplyNode(<< <<"not",
                            BlockNode(<<>>, BlockNode(<<>>, bool(TRUE)))>> >>),
          \* zap: { x }
          zap_x |-> ApplyNode(<< <<"zap", BlockNode(<<>>, var("x"))>> >>),
          \* calc: foo.bar.baz plus: foo.bar.qux
          calc_paths |-> ApplyNode(<< <<"calc", VariableNode(<<"foo", "bar", "baz">>)>>,
                                      <<"plus", VariableNode(<<"foo", "bar", "qux">>)>> >>),
          \* if: foo.a then: foo.b else: 2
          if_paths |-> ApplyNode(<< <<"if", VariableNode(<<"foo", "a">>)>>,
                                    <<"then", VariableNode(<<"foo", "b">>)>>,
                                    <<"else", num(2)>> >>),
          \* not: 1
          not_num |-> ApplyNode(<< <<"not", num(1)>> >>),
          \* [[a = x b = x] [a = 1 b = "s"]]
          rec_x |-> ListNode(<< RecordNode(<< <<"a", var("x")>>, <<"b", var("x")>> >>),
                                RecordNode(<< <<"a", num(1)>>, <<"b", str("s")>> >>) >>),
          \* [{ r => r.b }]
          list_block |-> ListNode(<<BlockNode(<<"r">>, VariableNode(<<"r", "b">>))>>),
          \* calc: 2 plus: "x"
          calc_str |-> ApplyNode(<< <<"calc", num(2)>>, <<"plus", str("x")>> >>),
          \* [x [{ q => x }]]
          cyclic |-> ListNode(<< var("x"),
                         ListNode(<<BlockNode(<<"q">>, var("x"))>>) >>) ]

\* The closures the host passes to Namespace::define.  A closure body named
\* after a prelude function is a copy of that function's callback.
Builders ==
    [ \* a total function with the signature and the callback of `with`
      pipe |-> Builder(<<RequiredArg("pipe", TyVar("In")),
                         RequiredArg("do", TyBlock(<<TyVar("In")>>, TyVar("Out")))>>,
                       <<TyVar("Out")>>, TRUE, <<"with">>),
      \* a new function
      bar |-> Builder(<<RequiredArg("bar", Ty("Bool"))>>, <<Ty("Bool")>>, FALSE, <<"not">>),
      \* a second definition of a prelude function
      not_again |-> Builder(<<RequiredArg("not", Ty("Str"))>>, <<Ty("Any")>>, FALSE, <<"crash">>),
      \* returns is never called
      no_returns |-> Builder(<<RequiredArg("foo", Ty("Num"))>>, <<>>, FALSE, <<"not">>),
      \* callback is never called
      no_callback |-> Builder(<<RequiredArg("foo", Ty("Num"))>>, <<Ty("Num")>>, FALSE, <<>>) ]

\* Orders in which a HashMap or HashSet of the type checker hands out its
\* keys: the names of the record fields and of the type variables of the
\* signatures, one way and the other.
HashOrders ==
    { <<"In", "Out", "A", "a", "b", "bar", "baz", "qux">>,
      <<"qux", "baz", "bar", "b", "a", "A", "Out", "In">> }

\* The maps the host passes to Script::eval, each in the order in which the
\* HashMap hands out its entries.
InputMaps ==
    { <<>>,
      << <<"x", NumV(1)>> >>,
      << <<"x", RecordV([a |-> NumV(3)])>>, <<"unused", NumV(0)>> >> }

VARIABLES
    ns,                   \* the shared Namespace
    defines,              \* define calls made by the host so far
    script,               \* the Script the host holds, if any
    host,                 \* "idle", "running" (inside Script::eval), or how it ended
    result,               \* what the last Script::eval returned
    instruction_pointer,  \* Machine::instruction_pointer
    bindings,             \* Machine::bindings: <<symbol id, value>> pairs
    value_stack,          \* Machine::value_stack
    keyword_stack,        \* Machine::keyword_stack
    frames,               \* the Rust call stack of the running eval, top last
    ret,                  \* the Result the callee on top has just returned
    obs                   \* history: the last thing that happened

vars ==
    <<ns, defines, script, host, result, instruction_pointer, bindings,
      value_stack, keyword_stack, frames, ret, obs>>

machine == <<instruction_pointer, bindings, value_stack, keyword_stack>>

Ok(v) == [r |-> "ok", v |-> v]

Err(e) == [r |-> "err", e |-> e]

Nothing == [r |-> "none"]

Init ==
    /\ ns = NewWithPrelude
    /\ defines = 0
    /\ script = [status |-> "none"]
    /\ host = "idle"
    /\ result = Nothing
    /\ instruction_pointer = 0
    /\ bindings = <<>>
    /\ value_stack = <<>>
    /\ keyword_stack = <<>>
    /\ frames = <<>>
    /\ ret = Nothing
    /\ obs = [ev |-> "none"]

\* ------------------------------------------------------------ the host

\* Namespace::define, called between evaluations.
NamespaceDefine ==
    /\ host = "idle"
    /\ defines < MaxDefines
    /\ \E b \in DOMAIN Builders :
          LET d == Define(ns, Builders[b])
          IN  /\ ns' = d.ns
              /\ obs' = [ev |-> "define", builder |-> b, ok |-> d.ok, before |-> ns]
    /\ defines' = defines + 1
    /\ UNCHANGED <<script, host, result, machine, frames, ret>>

\* Script::compile: parse (with the rewrite), type_of, emit.  The host lets
\* go of the script and of the result it held.  When type_of panics or never
\* returns, so does compile, and the host with it.
ScriptCompile ==
    /\ host = "idle"
    /\ \E src \in DOMAIN Programs, h \in HashOrders :
       \E tree \in {Parse(ns, Programs[src])} :
       \E typer_result \in {TypeCheck(ns, tree, h)} :
       \E end \in typer_result.ends :
          /\ script' = IF end = "ok"
                       THEN [status |-> "compiled", src |-> src, tree |-> tree,
                             instructions |-> Emit(tree, tree.nodes),
                             typer_result |-> [inputs |-> typer_result.inputs,
                                               output |-> typer_result.output,
                                               errors |-> typer_result.errors]]
                       ELSE [status |-> "none"]
          /\ host' = IF end = "ok" THEN host ELSE end
          /\ obs' = [ev |-> "compile", src |-> src, end |-> end,
                     errors |-> typer_result.errors]
    /\ result' = Nothing
    /\ UNCHANGED <<ns, defines, machine, frames, ret>>

\* Script::eval up to the first instruction: the inputs whose names the
\* tree's symbols know become the initial bindings, Machine::new, run,
\* eval_range(0, instructions.len()).
ScriptEval ==
    /\ host = "idle"
    /\ script.status = "compiled"
    /\ \E inputs \in InputMaps :
          LET known == SelectSeq(inputs, LAMBDA p : Find(script.tree.symbols, p[1]) # None)
          IN  /\ bindings' = [i \in DOMAIN known |->
                                <<Find(script.tree.symbols, known[i][1]), known[i][2]>>]
              /\ obs' = [ev |-> "eval", inputs |-> inputs]
    /\ host' = "running"
    /\ instruction_pointer' = 0
    /\ value_stack' = <<>>
    /\ keyword_stack' = <<>>
    /\ frames' = << [f |-> "run", inputs |-> obs'.inputs],
                    [f |-> "eval_range", end |-> Len(script.instructions), old_ip |-> 0] >>
    /\ ret' = Nothing
    /\ result' = Nothing
    /\ UNCHANGED <<ns, defines, script>>

\* ------------------------------------------------- interpreter/machine.rs

Top == frames[Len(frames)]

\* The frames under the top `n`: what is left when n calls have returned.
Under(n) == SubSeq(frames, 1, Len(frames) - n)

\* Vec::truncate: shortens, never lengthens.
Truncate(vec, len) == IF Len(vec) > len THEN SubSeq(vec, 1, len) ELSE vec

\* The instruction step is about to execute inside eval_range's loop.
Cur == script.instructions[instruction_pointer + 1]

\* eval_range's loop is about to call step on an instruction `op`.
Stepping(op) ==
    /\ host = "running"
    /\ ret = Nothing
    /\ Top.f = "eval_range"
    /\ instruction_pointer < Top.end
    /\ Cur.op = op

\* `?` on an error inside step: step and eval_range return it at once,
\* eval_range without putting old_ip back.
Throw(e) ==
    /\ frames' = Under(1)
    /\ ret' = Err(e)

\* The end of step.
Advance ==
    /\ instruction_pointer' = instruction_pointer + 1
    /\ UNCHANGED <<frames, ret>>

\* step, PushPrimitive (box_prim: a value of the kind of the constant).
PushPrimitive ==
    /\ Stepping("PushPrimitive")
    /\ value_stack' = Append(value_stack, Resolve(script.tree.constants, Cur.id))
    /\ Advance
    /\ obs' = [ev |-> "step"]
    /\ UNCHANGED <<ns, defines, script, host, result, bindings, keyword_stack>>

\* A lookup that walks the bindings from the oldest on.
LookupOldest(id) ==
    LET hits == {i \in DOMAIN bindings : bindings[i][1] = id}
    IN  IF hits = {} THEN <<>>
        ELSE <<bindings[CHOOSE i \in hits : \A j \in hits : i <= j][2]>>

\* The binding PushVar finds: bindings.iter().rev(), first with that id.
Lookup(id) ==
    LET hits == {i \in DOMAIN bindings : bindings[i][1] = id}
    IN  IF hits = {} THEN <<>>
        ELSE <<bindings[CHOOSE i \in hits : \A j \in hits : j <= i][2]>>

\* step, PushVar.
PushVar ==
    /\ Stepping("PushVar")
    /\ IF Lookup(Cur.id) = <<>>
       THEN Throw("Undefined") /\ UNCHANGED <<value_stack, instruction_pointer>>
       ELSE value_stack' = Append(value_stack, Lookup(Cur.id)[1]) /\ Advance
    /\ obs' = [ev |-> "PushVar", id |-> Cur.id, before |-> value_stack]
    /\ UNCHANGED <<ns, defines, script, host, result, bindings, keyword_stack>>

\* step, PushProp: the popped value is gone whether or not the step fails.
PushProp ==
    /\ Stepping("PushProp")
    /\ IF value_stack = <<>>
       THEN Throw("ValueStackEmpty") /\ UNCHANGED <<value_stack, instruction_pointer>>
       ELSE LET record == value_stack[Len(value_stack)]
                rest == SubSeq(value_stack, 1, Len(value_stack) - 1)
                name == Resolve(script.tree.symbols, Cur.id)
            IN  IF record.k # "Record"
                THEN /\ Throw("is not a list")
                     /\ value_stack' = rest
                     /\ UNCHANGED instruction_pointer
                ELSE IF name \notin DOMAIN record.fields
                THEN /\ Throw("Undefined")
                     /\ value_stack' = rest
                     /\ UNCHANGED instruction_pointer
                ELSE /\ value_stack' = Append(rest, record.fields[name])
                     /\ Advance
    /\ obs' = [ev |-> "step"]
    /\ UNCHANGED <<ns, defines, script, host, result, bindings, keyword_stack>>

\* step, PushKeyword.
PushKeyword ==
    /\ Stepping("PushKeyword")
    /\ keyword_stack' = Append(keyword_stack, Cur.id)
    /\ Advance
    /\ obs' = [ev |-> "step"]
    /\ UNCHANGED <<ns, defines, script, host, result, bindings, value_stack>>

\* step, MkList with pop_values.
MkList ==
    /\ Stepping("MkList")
    /\ IF Cur.size > Len(value_stack)
       THEN Throw("ValueStackEmpty") /\ UNCHANGED <<value_stack, instruction_pointer>>
       ELSE LET top == Len(value_stack)
            IN  /\ value_stack' = Append(SubSeq(value_stack, 1, top - Cur.size),
                        ListV(SubSeq(value_stack, top - Cur.size + 1, top)))
                /\ Advance
    /\ obs' = [ev |-> "step"]
    /\ UNCHANGED <<ns, defines, script, host, result, bindings, keyword_stack>>

\* Machine::pop_pairs(count): the keywords are split off before pop_values
\* is tried, so they are gone when pop_values fails.
PopPairs(count) ==
    LET ksize == Len(keyword_stack)
        vsize == Len(value_stack)
        keywords == SubSeq(keyword_stack, ksize - count + 1, ksize)
        values == SubSeq(value_stack, vsize - count + 1, vsize)
    IN  IF count > ksize
        THEN [err |-> "KeywordStackEmpty", keyword_stack |-> keyword_stack,
              value_stack |-> value_stack]
        ELSE IF count > vsize
        THEN [err |-> "ValueStackEmpty",
              keyword_stack |-> SubSeq(keyword_stack, 1, ksize - count),
              value_stack |-> value_stack]
        ELSE [err |-> "",
              keyword_stack |-> SubSeq(keyword_stack, 1, ksize - count),
              value_stack |-> SubSeq(value_stack, 1, vsize - count),
              pairs |-> [i \in 1..count |-> <<keywords[i], values[i]>>]]

\* step, MkRecord.
MkRecord ==
    /\ Stepping("MkRecord")
    /\ LET popped == PopPairs(Cur.size)
       IN  /\ keyword_stack' = popped.keyword_stack
           /\ IF popped.err # ""
              THEN /\ Throw(popped.err)
                   /\ value_stack' = popped.value_stack
                   /\ UNCHANGED instruction_pointer
              ELSE /\ value_stack' = Append(popped.value_stack,
                          RecordFromPairs([i \in DOMAIN popped.pairs |->
                              << Resolve(script.tree.symbols, popped.pairs[i][1]),
                                 popped.pairs[i][2] >>]))
                   /\ Advance
    /\ obs' = [ev |-> "step"]
    /\ UNCHANGED <<ns, defines, script, host, result, bindings>>

\* A MkBlock that does not jump over the block it captures.
MkBlockFallsThrough ==
    /\ Stepping("MkBlock")
    /\ value_stack' = Append(value_stack,
            [k |-> "Block", ip |-> instruction_pointer + 1,
             size |-> Cur.skip, argc |-> Cur.argc])
    /\ instruction_pointer' = instruction_pointer + 1
    /\ obs' = [ev |-> "step"]
    /\ UNCHANGED <<ns, defines, script, host, result, bindings, keyword_stack, frames, ret>>

\* step, MkBlock: the block handle points at the next instruction, and the
\* body is jumped over.
MkBlock ==
    /\ Stepping("MkBlock")
    /\ value_stack' = Append(value_stack,
            [k |-> "Block", ip |-> instruction_pointer + 1,
             size |-> Cur.skip, argc |-> Cur.argc])
    /\ instruction_pointer' = instruction_pointer + Cur.skip + 1
    /\ obs' = [ev |-> "step"]
    /\ UNCHANGED <<ns, defines, script, host, result, bindings, keyword_stack, frames, ret>>

\* step, Bind.
Bind ==
    /\ Stepping("Bind")
    /\ IF value_stack = <<>>
       THEN Throw("ValueStackEmpty") /\ UNCHANGED <<value_stack, bindings, instruction_pointer>>
       ELSE /\ bindings' = Append(bindings, <<Cur.id, value_stack[Len(value_stack)]>>)
            /\ value_stack' = SubSeq(value_stack, 1, Len(value_stack) - 1)
            /\ Advance
    /\ obs' = [ev |-> "step"]
    /\ UNCHANGED <<ns, defines, script, host, result, keyword_stack>>

\* step, CallFunction, up to the call of the callback: pop_pairs, the
\* callback registered under the first keyword's id, then the callback is
\* entered with the Apply (its frame remembers the call site).
CallFunction ==
    /\ Stepping("CallFunction")
    /\ LET popped == PopPairs(Cur.argc)
           callback == GetCallback(ns, popped.pairs[1][1])
       IN  /\ keyword_stack' = popped.keyword_stack
           /\ value_stack' = popped.value_stack
           /\ IF popped.err # ""
              THEN Throw(popped.err) /\ obs' = [ev |-> "step"]
              ELSE /\ IF callback = <<>>
                      THEN Throw("Function is undefined")
                      ELSE /\ frames' = Append(frames,
                                  [f |-> "callback", callback |-> callback[1],
                                   apply |-> popped.pairs, site |-> instruction_pointer,
                                   pc |-> "start", local |-> <<>>])
                           /\ UNCHANGED ret
                   /\ obs' = [ev |-> "CallFunction", site |-> instruction_pointer,
                              written |-> Cur.apply, apply |-> popped.pairs,
                              callback |-> callback]
    /\ UNCHANGED <<ns, defines, script, host, result, bindings, instruction_pointer>>

\* eval_range, after the loop: the instruction pointer it found is put back.
EvalRangeDone ==
    /\ host = "running"
    /\ ret = Nothing
    /\ Top.f = "eval_range"
    /\ instruction_pointer >= Top.end
    /\ instruction_pointer' = Top.old_ip
    /\ frames' = Under(1)
    /\ ret' = [r |-> "unit"]
    /\ obs' = [ev |-> "step"]
    /\ UNCHANGED <<ns, defines, script, host, result, bindings, value_stack, keyword_stack>>

\* Value::try_call / try_block + Machine::eval_block, from the callback on
\* top of the call stack, up to the first instruction of the block: a value
\* that is no block is an error; otherwise the sizes and the instruction
\* pointer are noted, the arguments pushed, and eval_range(block.ip,
\* block.size) entered.  The callback waits at `pc` with `local`.
EvalBlock(block, args, pc, local) ==
    LET waiting == [Top EXCEPT !.pc = pc, !.local = local]
    IN  /\ IF block.k # "Block"
           THEN /\ frames' = Append(Under(1), waiting)
                /\ ret' = Err("is not a block")
                /\ UNCHANGED <<value_stack, instruction_pointer>>
           ELSE /\ frames' = Under(1) \o
                       << waiting,
                          [f |-> "eval_block", block |-> block, args |-> args,
                           orig_value_stack_size |-> Len(value_stack),
                           orig_keyword_stack_size |-> Len(keyword_stack),
                           orig_bindings_size |-> Len(bindings),
                           orig_ip |-> instruction_pointer,
                           orig_bindings |-> bindings],
                          [f |-> "eval_range", end |-> block.ip + block.size,
                           old_ip |-> block.ip] >>
                /\ ret' = Nothing
                /\ value_stack' = value_stack \o args
                /\ instruction_pointer' = block.ip
        /\ obs' = [ev |-> "step"]
        /\ UNCHANGED <<bindings, keyword_stack>>

\* The sizes and the instruction pointer, as eval_block notes them.
Sizes(vs, ks, bs, ip) == [value_stack |-> vs, keyword_stack |-> ks, bindings |-> bs, ip |-> ip]

\* eval_block, after eval_range has returned: an error leaves at once (`?`);
\* otherwise the result is popped, the instruction pointer put back and the
\* three stacks truncated to the noted sizes.
EvalBlockExit ==
    /\ host = "running"
    /\ Top.f = "eval_block"
    /\ ret # Nothing
    /\ LET before == Sizes(Top.orig_value_stack_size, Top.orig_keyword_stack_size,
                           Top.orig_bindings_size, Top.orig_ip)
           popped == IF value_stack = <<>> THEN value_stack
                     ELSE SubSeq(value_stack, 1, Len(value_stack) - 1)
       IN  /\ IF ret.r = "err"
              THEN /\ ret' = ret
                   /\ UNCHANGED machine
              ELSE /\ ret' = IF value_stack = <<>> THEN Err("ValueStackEmpty")
                             ELSE Ok(value_stack[Len(value_stack)])
                   /\ instruction_pointer' = Top.orig_ip
                   /\ value_stack' = Truncate(popped, Top.orig_value_stack_size)
                   /\ keyword_stack' = Truncate(keyword_stack, Top.orig_keyword_stack_size)
                   /\ bindings' = Truncate(bindings, Top.orig_bindings_size)
           /\ obs' = [ev |-> "eval_block", block |-> Top.block, args |-> Top.args,
                      entered |-> ret.r = "unit", result |-> ret', before |-> before,
                      after |-> Sizes(Len(value_stack'), Len(keyword_stack'),
                                      Len(bindings'), instruction_pointer'),
                      orig_bindings |-> Top.orig_bindings]
    /\ frames' = Under(1)
    /\ UNCHANGED <<ns, defines, script, host, result>>

\* Machine::run after eval_range, and the return of Script::eval: the
\* machine is dropped.
RunExit ==
    /\ host = "running"
    /\ Top.f = "run"
    /\ ret # Nothing
    /\ result' = IF ret.r = "err" THEN ret
                 ELSE IF value_stack = <<>> THEN Err("ValueStackEmpty")
                 ELSE Ok(value_stack[Len(value_stack)])
    /\ host' = "idle"
    /\ frames' = <<>>
    /\ ret' = Nothing
    /\ instruction_pointer' = 0
    /\ bindings' = <<>>
    /\ value_stack' = <<>>
    /\ keyword_stack' = <<>>
    /\ obs' = [ev |-> "run", inputs |-> Top.inputs,
               left |-> Sizes(Len(value_stack), Len(keyword_stack),
                              Len(bindings), instruction_pointer)]
    /\ UNCHANGED <<ns, defines, script>>

\* ------------------------------------------------ apply.rs, prelude.rs

\* Apply::get: the value of the first pair with that keyword, <<>> if none.
Get(apply, name) ==
    LET hits == {i \in DOMAIN apply : apply[i][1] = name}
    IN  IF hits = {} THEN <<>>
        ELSE <<apply[CHOOSE i \in hits : \A j \in hits : i <= j][2]>>

\* Apply::demand followed by a try_<kind> conversion of the value.
Demand(apply, name, kind) ==
    LET v == Get(apply, name)
    IN  IF v = <<>> THEN Err("Missing required argument")
        ELSE IF kind \notin {"", v[1].k} THEN Err("is not a " \o kind)
        ELSE Ok(v[1])

\* The callback on top of the call stack with that body is running.
Calling(body) ==
    /\ host = "running"
    /\ Top.f = "callback"
    /\ Top.callback.body = body

\* The callback returns `res` to step (CallFunction), which pushes the value
\* and moves to the next instruction, or passes the error on through
\* eval_range.
Return(res) ==
    /\ IF res.r = "ok"
       THEN /\ frames' = Under(1)
            /\ ret' = Nothing
            /\ value_stack' = Append(value_stack, res.v)
            /\ instruction_pointer' = instruction_pointer + 1
       ELSE /\ frames' = Under(2)
            /\ ret' = res
            /\ UNCHANGED <<value_stack, instruction_pointer>>
    /\ obs' = [ev |-> "return", site |-> Top.site, body |-> Top.callback.body,
               result |-> res, local |-> Top.local, ip |-> instruction_pointer']
    /\ UNCHANGED <<bindings, keyword_stack>>

\* crash: always an error, the message if there is one.
CallbackCrash ==
    /\ Calling("crash")
    /\ LET msg == Demand(Top.apply, Top.callback.ids[1], "String")
       IN  Return(IF msg.r = "ok" THEN Err(msg.v.s) ELSE msg)
    /\ UNCHANGED <<ns, defines, script, host, result>>

\* not.
CallbackNot ==
    /\ Calling("not")
    /\ LET b == Demand(Top.apply, Top.callback.ids[1], "Boolean")
       IN  Return(IF b.r = "ok" THEN Ok(BoolV(~b.v.b)) ELSE b)
    /\ UNCHANGED <<ns, defines, script, host, result>>

\* compare: every pair after the first must hold a number; the first
\* comparison that does not pass makes the result false.
CallbackCompare ==
    /\ Calling("compare")
    /\ LET args == Top.apply
           ids == Top.callback.ids
           it == Demand(args, ids[1], "Number")
           pass(i) == LET other == args[i][2].n
                          keyword == args[i][1]
                      IN  CASE keyword = ids[2] -> it.v.n > other
                            [] keyword = ids[3] -> it.v.n >= other
                            [] keyword = ids[4] -> it.v.n < other
                            [] keyword = ids[5] -> it.v.n <= other
                            [] OTHER -> TRUE
           stops == {i \in 2..Len(args) : args[i][2].k # "Number" \/ ~pass(i)}
           first == CHOOSE i \in stops : \A j \in stops : i <= j
       IN  Return(IF it.r = "err" THEN it
                  ELSE IF stops = {} THEN Ok(BoolV(TRUE))
                  ELSE IF args[first][2].k # "Number" THEN Err("is not a Number")
                  ELSE Ok(BoolV(FALSE)))
    /\ UNCHANGED <<ns, defines, script, host, result>>

RECURSIVE CalcFold(_, _, _, _)
\* The fold of calc over the pairs from the i-th on, `acc` being the Result
\* so far.  Numbers are integers here; a quotient that is none has no value
\* in the model.
CalcFold(args, ids, i, acc) ==
    IF i > Len(args) THEN acc
    ELSE IF acc.r = "err" THEN acc
    ELSE IF args[i][2].k # "Number" THEN Err("is not a Number")
    ELSE LET r == acc.v.n
             n == args[i][2].n
             keyword == args[i][1]
         IN  CalcFold(args, ids, i + 1,
                CASE keyword = ids[2] -> Ok(NumV(r + n))
                  [] keyword = ids[3] -> Ok(NumV(r - n))
                  [] keyword = ids[4] -> Ok(NumV(r * n))
                  [] keyword = ids[5] /\ n # 0 /\ r % n = 0 -> Ok(NumV(r \div n))
                  [] keyword \notin {ids[2], ids[3], ids[4], ids[5]} -> Ok(NumV(r)))

\* calc.
CallbackCalc ==
    /\ Calling("calc")
    /\ LET init == Demand(Top.apply, Top.callback.ids[1], "")
       IN  Return(IF init.r = "err" THEN init
                  ELSE CalcFold(Top.apply, Top.callback.ids, 2,
                                Demand(Top.apply, Top.callback.ids[1], "Number")))
    /\ UNCHANGED <<ns, defines, script, host, result>>

\* with: the block is called with the one value; what the call gives is
\* what the callback gives.
CallbackWith ==
    /\ Calling("with")
    /\ LET block == Demand(Top.apply, Top.callback.ids[2], "")
           with == Demand(Top.apply, Top.callback.ids[1], "")
       IN  IF Top.pc = "start"
           THEN IF block.r = "err" THEN Return(block)
                ELSE IF with.r = "err" THEN Return(with)
                ELSE EvalBlock(block.v, <<with.v>>, "do", <<>>)
           ELSE ret # Nothing /\ Return(ret)
    /\ UNCHANGED <<ns, defines, script, host, result>>

\* try: the `try` block is called; if that call fails the error is dropped
\* and the `or` block is called instead.
CallbackTry ==
    /\ Calling("try")
    /\ LET try == Demand(Top.apply, Top.callback.ids[1], "")
           or == Demand(Top.apply, Top.callback.ids[2], "")
       IN  CASE Top.pc = "start" ->
                    IF try.r = "err" THEN Return(try)
                    ELSE EvalBlock(try.v, <<>>, "try", <<>>)
             [] Top.pc = "try" ->
                    /\ ret # Nothing
                    /\ IF ret.r = "ok" THEN Return(ret)
                       ELSE IF or.r = "err" THEN Return(or)
                       ELSE EvalBlock(or.v, <<>>, "or", <<"suppressed">>)
             [] Top.pc = "or" -> ret # Nothing /\ Return(ret)
    /\ UNCHANGED <<ns, defines, script, host, result>>

\* each: the block is called once per item, in order, until a call fails.
\* local = <<items still to do, results so far>>.
CallbackEach ==
    /\ Calling("each")
    /\ LET list == Demand(Top.apply, Top.callback.ids[1], "List")
           block == Demand(Top.apply, Top.callback.ids[2], "Block")
           todo == IF Top.pc = "start" THEN list.v.items ELSE Top.local[1]
           out == IF Top.pc = "start" THEN <<>> ELSE Append(Top.local[2], ret.v)
       IN  /\ Top.pc = "start" \/ ret # Nothing
           /\ IF list.r = "err" THEN Return(list)
              ELSE IF block.r = "err" THEN Return(block)
              ELSE IF Top.pc # "start" /\ ret.r = "err" THEN Return(ret)
              ELSE IF todo = <<>> THEN Return(Ok(ListV(out)))
              ELSE EvalBlock(block.v, <<Head(todo)>>, "item", <<Tail(todo), out>>)
    /\ UNCHANGED <<ns, defines, script, host, result>>

\* if: the pairs after the first are walked up to the first then/else;
\* an `and` block is called while the condition holds, an `or` block while
\* it does not; then the branch is called.
\* local = <<yes_no, index of the next pair to look at>>.
CallbackIf ==
    /\ Calling("if")
    /\ LET args == Top.apply
           ids == Top.callback.ids
           if == Demand(args, ids[1], "Boolean")
           yes_no == CASE Top.pc = "start" -> if.v.b
                       [] Top.pc = "cond" -> ret.v.b
                       [] OTHER -> Top.local[1]
           from == IF Top.pc = "start" THEN 2 ELSE Top.local[2]
           stops == {i \in from..Len(args) :
                        \/ yes_no /\ args[i][1] = ids[2]
                        \/ ~yes_no /\ args[i][1] = ids[3]
                        \/ args[i][1] \in {ids[4], ids[5]}}
           stop == CHOOSE i \in stops : \A j \in stops : i <= j
           branch == Demand(args, IF yes_no THEN ids[4] ELSE ids[5], "")
       IN  /\ Top.pc = "start" \/ ret # Nothing
           /\ CASE Top.pc = "start" /\ if.r = "err" -> Return(if)
                [] Top.pc = "cond" /\ ret.r = "err" -> Return(ret)
                [] Top.pc = "cond" /\ ret.r = "ok" /\ ret.v.k # "Boolean" ->
                        Return(Err("is not a Boolean"))
                [] Top.pc = "branch" -> Return(ret)
                [] OTHER ->
                        IF stops # {} /\ args[stop][1] \in {ids[2], ids[3]}
                        THEN EvalBlock(args[stop][2], <<>>, "cond", <<yes_no, stop + 1>>)
                        ELSE IF branch.r = "err" THEN Return(branch)
                        ELSE EvalBlock(branch.v, <<>>, "branch", <<yes_no, 0>>)
    /\ UNCHANGED <<ns, defines, script, host, result>>

\* Block::call by the host on a block it got as the result of Script::eval:
\* the machine the handle points at was dropped when eval returned, and the
\* handle is dereferenced without any check.  What a use of freed memory
\* does is not defined: eval_block runs on whatever is there, or the
\* process faults.  No path returns an error for the stale handle.
BlockCall ==
    /\ host = "idle"
    /\ result.r = "ok"
    /\ result.v.k = "Block"
    /\ \E outcome \in {"eval_block", "fault"} :
          obs' = [ev |-> "Block::call", block |-> result.v, outcome |-> outcome]
    /\ host' = "undefined"
    /\ UNCHANGED <<ns, defines, script, result, machine, frames, ret>>

Next ==
    \/ NamespaceDefine
    \/ ScriptCompile
    \/ ScriptEval
    \/ BlockCall
    \/ PushPrimitive
    \/ PushVar
    \/ PushProp
    \/ PushKeyword
    \/ MkList
    \/ MkRecord
    \/ MkBlock
    \/ Bind
    \/ CallFunction
    \/ EvalRangeDone
    \/ EvalBlockExit
    \/ RunExit
    \/ CallbackCrash
    \/ CallbackNot
    \/ CallbackCompare
    \/ CallbackCalc
    \/ CallbackWith
    \/ CallbackTry
    \/ CallbackEach
    \/ CallbackIf

Spec == Init /\ [][Next]_vars

\* ------------------------------------------- the symbol arena on its own

\* Most Namespace::intern_symbol calls the host makes in a row.
MaxInterns == 4

\* Ids a long-lived namespace has left before its arena holds 2^16 symbols.
InternerRoom == 1

\* The strings the host passes to Namespace::intern_symbol: the name of a
\* prelude function and names no one has interned yet.
InternMembers == {"not", "n1", "n2", "n3", "n4"}

\* The arena of a namespace whose host has interned symbol after symbol
\* until it holds n of them.
FilledSymbols(n) ==
    The({ symbols \o [i \in 1..(n - Len(symbols)) |-> "s" \o ToString(i)] :
             symbols \in {NewWithPrelude.symbols} })

\* A namespace fresh from new_with_prelude, or one that has been in use for
\* long.
ArenaInit ==
    /\ ns \in {NewWithPrelude,
               [NewWithPrelude EXCEPT !.symbols = FilledSymbols(U16 - InternerRoom)]}
    /\ defines = 0
    /\ script = [status |-> "none"]
    /\ host = "idle"
    /\ result = Nothing
    /\ instruction_pointer = 0
    /\ bindings = <<>>
    /\ value_stack = <<>>
    /\ keyword_stack = <<>>
    /\ frames = <<>>
    /\ ret = Nothing
    /\ obs = [ev |-> "none", calls |-> 0, first |-> <<>>]

\* Namespace::intern_symbol.  obs.first keeps, for each member, the id its
\* first intern returned.
NamespaceInternSymbol ==
    /\ host = "idle"
    /\ obs.calls < MaxInterns
    /\ \E member \in InternMembers :
       \E id \in {InternId(ns.symbols, member)} :
          /\ ns' = [ns EXCEPT !.symbols = Intern(@, member)]
          /\ obs' = [ev |-> "intern", calls |-> obs.calls + 1,
                     member |-> member, id |-> id,
                     stored |-> Find(ns.symbols, member) # None,
                     len |-> Len(ns.symbols),
                     first |-> IF member \in DOMAIN obs.first THEN obs.first
                               ELSE (member :> id) @@ obs.first]
    /\ UNCHANGED <<defines, script, host, result, machine, frames, ret>>

ArenaNext == NamespaceInternSymbol

ArenaSpec == ArenaInit /\ [][ArenaNext]_vars

\* ------------------------------------------- the type checker on its own

\* Most constraints in a list the host passes to solve.
MaxConstraints == 3

\* A closure a host passes to Namespace::define: a function whose return
\* type has a type variable that none of its arguments has.
MakeBuilder ==
    Builder(<<RequiredArg("make", Ty("Num"))>>, <<TyVar("T")>>, FALSE, <<"crash">>)

\* Source texts the host has type checked, as the trees the grammar gives
\* them: those of Programs and some more.
TyperPrograms ==
    LET num(n) == PrimitiveNode(NumV(n))
        str(t) == PrimitiveNode(StrV(t))
        var(name) == VariableNode(<<name>>)
        make == ApplyNode(<< <<"make", num(1)>> >>)
        with(value, block) == ApplyNode(<< <<"with", value>>, <<"do", block>> >>)
    IN  [ \* not: make: 1
          make_once |-> ApplyNode(<< <<"not", make>> >>),
          \* [a = not: make: 1 b = calc: make: 1]
          make_twice |-> RecordNode(<< <<"a", ApplyNode(<< <<"not", make>> >>)>>,
                                       <<"b", ApplyNode(<< <<"calc", make>> >>)>> >>),
          \* [a = with: 1 do: { x => x } b = with: "s" do: { y => y }]
          with_twice |-> RecordNode(<<
                <<"a", with(num(1), BlockNode(<<"x">>, var("x")))>>,
                <<"b", with(str("s"), BlockNode(<<"y">>, var("y")))>> >>),
          \* with: 1 do: { 2 }
          with_none |-> with(num(1), BlockNode(<<>>, num(2))),
          \* with: 1 do: { x => x }
          with_one |-> with(num(1), BlockNode(<<"x">>, var("x"))),
          \* with: 1 do: { x y => x }
          with_two |-> with(num(1), BlockNode(<<"x", "y">>, var("x"))),
          \* each: [1] do: { i j k => i }
          each_three |-> ApplyNode(<< <<"each", ListNode(<<num(1)>>)>>,
                            <<"do", BlockNode(<<"i", "j", "k">>, var("i"))>> >>),
          \* crash: "x"
          crash_x |-> ApplyNode(<< <<"crash", str("x")>> >>) ] @@ Programs

\* The constraints a caller of solve puts in its list: variables against
\* each other, against lists, blocks and records, and against Any.
SolverConstraints ==
    LET v(n) == Fresh(n)
        field(ty) == [ty |-> ty, optional |-> FALSE]
        rec(partial, name, ty) == TyRecord(partial, (name :> field(ty)))
    IN  { <<v(1), v(2)>>,
          <<v(1), TyList(v(3))>>,
          <<v(3), TyBlock(<<v(4)>>, v(2))>>,
          <<v(1), v(3)>>,
          <<Ty("Num"), v(2)>>,
          <<Ty("Str"), Ty("Num")>>,
          <<Ty("Any"), v(1)>>,
          <<v(2), Ty("Any")>>,
          <<Ty("Any"), Ty("Num")>>,
          <<TyList(v(3)), Ty("Any")>>,
          <<Ty("Any"), rec(FALSE, "a", Ty("Num"))>>,
          <<v(1), rec(TRUE, "a", v(2))>>,
          <<v(1), rec(TRUE, "b", Ty("Num"))>>,
          <<v(3), rec(FALSE, "a", Ty("Num"))>>,
          <<rec(FALSE, "a", Ty("Num")), rec(TRUE, "b", v(2))>> }

\* What the unifiers of a solve share when it starts.
NoBindings == [subst |-> <<>>, errors |-> <<>>, path |-> <<>>, overflow |-> FALSE]

TyperInit ==
    /\ ns = NewWithPrelude
    /\ defines = 0
    /\ script = [status |-> "none"]
    /\ host = "idle"
    /\ result = Nothing
    /\ instruction_pointer = 0
    /\ bindings = <<>>
    /\ value_stack = <<>>
    /\ keyword_stack = <<>>
    /\ frames = <<>>
    /\ ret = Nothing
    /\ obs = [ev |-> "none", n |-> 0, u |-> NoBindings]

\* Namespace::define with MakeBuilder.
DefineMake ==
    /\ obs.ev \in {"none", "type_of"}
    /\ GetSignature(ns, "make") = <<>>
    /\ ns' = Define(ns, MakeBuilder).ns
    /\ obs' = [ev |-> "define", n |-> 0, u |-> NoBindings]
    /\ UNCHANGED <<defines, script, host, result, machine, frames, ret>>

\* frontend::parse and typing::type_of on a source text (the host does
\* this before it turns to solve).
TyperTypeOf ==
    /\ obs.ev \in {"none", "define", "type_of"}
    /\ \E src \in DOMAIN TyperPrograms, h \in HashOrders :
       \E tree \in {Parse(ns, TyperPrograms[src])} :
       \E typer_result \in {TypeCheck(ns, tree, h)} :
       \E end \in typer_result.ends :
          obs' = [ev |-> "type_of", src |-> src, end |-> end,
                  inputs |-> typer_result.inputs, output |-> typer_result.output,
                  errors |-> typer_result.errors, n |-> 0, u |-> NoBindings]
    /\ UNCHANGED <<ns, defines, script, host, result, machine, frames, ret>>

\* solve, one pass of the loop over the constraints: the Unifier of the
\* next constraint and its unify.  obs keeps the constraint, what the
\* unifiers shared before it, and the type unify returned.
SolveUnify ==
    /\ obs.n < MaxConstraints
    /\ ~obs.u.overflow
    /\ \E constraint \in SolverConstraints, h \in HashOrders :
       \E before \in {IF obs.ev = "unify" THEN obs.u ELSE NoBindings} :
       \E done \in {Unify(constraint[1], constraint[2], before, h)} :
          obs' = [ev |-> "unify", n |-> IF obs.ev = "unify" THEN obs.n + 1 ELSE 1,
                  left |-> constraint[1], right |-> constraint[2],
                  before |-> before, ty |-> done.ty, u |-> done.u]
    /\ UNCHANGED <<ns, defines, script, host, result, machine, frames, ret>>

\* solve after the loop: minimize_substitution and the unwrap.
SolveMinimize ==
    /\ obs.ev = "unify"
    /\ ~obs.u.overflow
    /\ \E minimized \in {MinimizeSubstitution(obs.u.subst, 1)} :
       \E end \in minimized.ends :
          obs' = [ev |-> "solved", end |-> end, subst |-> minimized.subst,
                  errors |-> obs.u.errors, unified |-> obs.u.subst,
                  n |-> 0, u |-> NoBindings]
    /\ UNCHANGED <<ns, defines, script, host, result, machine, frames, ret>>

TyperNext ==
    \/ DefineMake
    \/ TyperTypeOf
    \/ SolveUnify
    \/ SolveMinimize

TyperSpec == TyperInit /\ [][TyperNext]_vars

\* ------------------- a host function that calls a block with two values

\* The closure of the host's function `pair`: a callback that calls the
\* block under `do` with the values under `pair` and `and`, in that order.
PairBuilder ==
    Builder(<<RequiredArg("pair", TyVar("In")),
              RequiredArg("and", TyVar("A")),
              RequiredArg("do", TyBlock(<<TyVar("In"), TyVar("A")>>, TyVar("Out")))>>,
            <<TyVar("Out")>>, FALSE, <<"pair">>)

\* Source texts that call it.
PairPrograms ==
    LET num(n) == PrimitiveNode(NumV(n))
        var(name) == VariableNode(<<name>>)
        pair(first, second, block) ==
            ApplyNode(<< <<"pair", first>>, <<"and", second>>, <<"do", block>> >>)
        both == BlockNode(<<"x", "y">>, ListNode(<<var("x"), var("y")>>))
    IN  [ \* pair: 1 and: "s" do: { x y => [x y] }
          pair_list |-> pair(num(1), PrimitiveNode(StrV("s")), both),
          \* pair: x and: [x] do: { a b => [a b x] }
          pair_inputs |-> pair(var("x"), ListNode(<<var("x")>>),
                               BlockNode(<<"a", "b">>,
                                         ListNode(<<var("a"), var("b"), var("x")>>))),
          \* pair: 1 and: 2 do: { x y => pair: y and: true do: { x y => [x y] } }
          pair_nested |-> pair(num(1), num(2),
                               BlockNode(<<"x", "y">>,
                                         pair(var("y"), PrimitiveNode(BoolV(TRUE)), both))) ]

\* The host has defined `pair` in a namespace fresh from the prelude.
PairInit ==
    /\ ns = Define(NewWithPrelude, PairBuilder).ns
    /\ defines = 1
    /\ script = [status |-> "none"]
    /\ host = "idle"
    /\ result = Nothing
    /\ instruction_pointer = 0
    /\ bindings = <<>>
    /\ value_stack = <<>>
    /\ keyword_stack = <<>>
    /\ frames = <<>>
    /\ ret = Nothing
    /\ obs = [ev |-> "none"]

\* Script::compile of one of these texts.
PairCompile ==
    /\ host = "idle"
    /\ \E src \in DOMAIN PairPrograms, h \in HashOrders :
       \E tree \in {Parse(ns, PairPrograms[src])} :
       \E typer_result \in {TypeCheck(ns, tree, h)} :
       \E end \in typer_result.ends :
          /\ script' = IF end = "ok"
                       THEN [status |-> "compiled", src |-> src, tree |-> tree,
                             instructions |-> Emit(tree, tree.nodes),
                             typer_result |-> [inputs |-> typer_result.inputs,
                                               output |-> typer_result.output,
                                               errors |-> typer_result.errors]]
                       ELSE [status |-> "none"]
          /\ host' = IF end = "ok" THEN host ELSE end
          /\ obs' = [ev |-> "compile", src |-> src, end |-> end,
                     errors |-> typer_result.errors]
    /\ result' = Nothing
    /\ UNCHANGED <<ns, defines, machine, frames, ret>>

\* pair: block.try_call(vm, vec![first, second]); what the call gives is
\* what the callback gives.
CallbackPair ==
    /\ Calling("pair")
    /\ LET first == Demand(Top.apply, Top.callback.ids[1], "")
           second == Demand(Top.apply, Top.callback.ids[2], "")
           block == Demand(Top.apply, Top.callback.ids[3], "")
       IN  IF Top.pc = "start"
           THEN IF block.r = "err" THEN Return(block)
                ELSE IF first.r = "err" THEN Return(first)
                ELSE IF second.r = "err" THEN Return(second)
                ELSE EvalBlock(block.v, <<first.v, second.v>>, "do", <<>>)
           ELSE ret # Nothing /\ Return(ret)
    /\ UNCHANGED <<ns, defines, script, host, result>>

PairNext ==
    \/ PairCompile
    \/ ScriptEval
    \/ PushPrimitive
    \/ PushVar
    \/ PushKeyword
    \/ MkList
    \/ MkBlock
    \/ Bind
    \/ CallFunction
    \/ CallbackPair
    \/ EvalRangeDone
    \/ EvalBlockExit
    \/ RunExit

PairSpec == PairInit /\ [][PairNext]_vars

\* ------------- the emitter and the run-time type check, as the tests call them

\* The most parameters a block handed to emit has.
MaxParams == 256

\* test_helpers::parse_with_prelude: frontend::parse with a namespace fresh
\* from the prelude.  Interning a name that is stored changes nothing, so of
\* the identifiers only the first occurrences are interned.
ParseWithPrelude(root) ==
    LET idents == Idents(root)
        firsts == SelectSeq([i \in DOMAIN idents |-> <<i, idents[i]>>],
                            LAMBDA p : \A j \in 1..(p[1] - 1) : idents[j] # p[2])
        tree == [ nodes     |-> root,
                  constants |-> InternAll(<<>>, Prims(root)),
                  symbols   |-> InternAll(NewWithPrelude.symbols,
                                          [i \in DOMAIN firsts |-> firsts[i][2]]) ]
    IN  [tree EXCEPT !.nodes = Rewrite(NewWithPrelude, tree, root)]

\* The source texts of the emitter's callers: blocks `{ x y x y ... => B }`
\* with 0 to MaxParams parameters; test_emit_block has `{ x y => [y x] }`.
EmitterBlocks ==
    LET var(name) == VariableNode(<<name>>)
        params(n) == [i \in 1..n |-> IF i % 2 = 1 THEN "x" ELSE "y"]
        bodies == { ListNode(<<var("y"), var("x")>>),
                    PrimitiveNode(NumV(1)),
                    BlockNode(<<"y">>, VariableNode(<<"x", "a">>)),
                    RecordNode(<< <<"a", BlockNode(<<>>, var("x"))>>,
                                  <<"b", var("y")>> >>) }
    IN  { BlockNode(params(n), body) : n \in 0..MaxParams, body \in bodies }

\* The types and the values of the callers of satisfied_by_value: those of
\* test_satisfied_by_primitive_types, _lists and _records, and nested ones.
CheckedTypes ==
    LET field(ty, optional) == [ty |-> ty, optional |-> optional]
        datnum == TyRecord(FALSE, [a |-> field(Ty("Num"), FALSE)])
    IN  { Ty("Any"), Ty("Never"), Ty("Num"), Ty("Str"), Ty("Bool"), Ty("Time"),
          Ty("Money"), TyVar("T"), Quoted(Ty("Num")),
          TyList(Ty("Num")), TyList(Ty("Str")), TyList(TyList(Ty("Num"))),
          datnum, TyList(datnum),
          TyRecord(FALSE, [a |-> field(Ty("Num"), FALSE), b |-> field(Ty("Str"), TRUE)]),
          TyRecord(TRUE, [b |-> field(datnum, FALSE)]) }

CheckedValues ==
    { NumV(3), StrV("hello"), BoolV(FALSE),
      ListV(<<>>), ListV(<<NumV(3)>>), ListV(<<StrV("Yo"), NumV(3), BoolV(TRUE)>>),
      ListV(<<ListV(<<NumV(3)>>), NumV(3)>>),
      RecordV([a |-> NumV(3)]), RecordV([a |-> StrV("Yo")]),
      RecordV([bar |-> BoolV(FALSE)]), RecordV([a |-> NumV(3), b |-> NumV(3)]),
      RecordV([b |-> RecordV([a |-> StrV("Yo")])]),
      ListV(<<RecordV([a |-> NumV(3)]), RecordV([bar |-> NumV(3)])>>),
      [k |-> "Block", ip |-> 1, size |-> 1, argc |-> 0] }

RECURSIVE SatisfiedByInner(_, _, _, _)
\* Type::satisfied_by_inner: the errors pushed, in order.  An error is the
\* prefix it was formatted with (`item i: ` and `field \`name\` ` parts, as
\* a path), the value it is about and what is wrong with it; the message of
\* a missing field names the field itself and is formatted without prefix.
SatisfiedByInner(ty, value, prefix, h) ==
    LET error(path, text) == <<[path |-> path, value |-> value, text |-> text]>>
        try(kind, text) == IF value.k = kind THEN <<>> ELSE error(prefix, text)
        item(i) == [loc |-> "item", id |-> ToString(i - 1)]
        field(name) == [loc |-> "field", id |-> name]
        names == Iterate(DOMAIN ty.fields, h)
    IN  IF ty.k \in {"Any", "Var"} THEN <<>>
        ELSE IF ty.k = "Never" THEN error(prefix, "unexpected value")
        ELSE IF ty.k = "Num" THEN try("Number", "is not a number")
        ELSE IF ty.k = "Str" THEN try("String", "is not a string")
        ELSE IF ty.k = "Bool" THEN try("Boolean", "is not a boolean")
        ELSE IF ty.k = "Time" THEN try("Time", "is not a time")
        ELSE IF ty.k = "Money" THEN error(<<>>, "money type is not ready yet")
        ELSE IF ty.k = "List"
        THEN IF value.k # "List" THEN error(<<>>, "is not a list")
             ELSE Flatten([i \in DOMAIN value.items |->
                     SatisfiedByInner(ty.elem, value.items[i], Append(prefix, item(i)), h)])
        ELSE IF ty.k = "Record"
        THEN IF value.k # "Record" THEN error(<<>>, "is not a list")
             ELSE Flatten([n \in DOMAIN names |->
                     IF names[n] \in DOMAIN value.fields
                     THEN SatisfiedByInner(ty.fields[names[n]].ty, value.fields[names[n]],
                                           Append(prefix, field(names[n])), h)
                     ELSE IF ty.fields[names[n]].optional THEN <<>>
                     ELSE error(<<field(names[n])>>, "is required")])
        ELSE IF value.k = "Block" THEN <<>> ELSE error(<<>>, "not a block")


\* emit(&parse_with_prelude(src)), as the tests of the emitter call it: a
\* test starts from nothing and makes one call (emit and satisfied_by_value
\* keep no state from one call to the next).
EmitterEmit ==
    /\ obs.ev = "none"
    /\ \E root \in EmitterBlocks :
       \E tree \in {ParseWithPrelude(root)} :
          obs' = [ev |-> "emit", n |-> 0, u |-> NoBindings, tree |-> tree,
                  instructions |-> Emit(tree, tree.nodes)]
    /\ UNCHANGED <<ns, defines, script, host, result, machine, frames, ret>>

\* ty.satisfied_by_value(&value): Err with the errors pushed, Ok if none.
TypeSatisfiedByValue ==
    /\ obs.ev = "none"
    /\ \E ty \in CheckedTypes, value \in CheckedValues, h \in HashOrders :
          obs' = [ev |-> "satisfied_by_value", n |-> 0, u |-> NoBindings,
                  ty |-> ty, value |-> value,
                  errors |-> SatisfiedByInner(ty, value, <<>>, h)]
    /\ UNCHANGED <<ns, defines, script, host, result, machine, frames, ret>>

UnitNext ==
    \/ EmitterEmit
    \/ TypeSatisfiedByValue

UnitSpec == TyperInit /\ [][UnitNext]_vars

\* ------------------------------------------------------------ properties

\* C1: whenever eval_block returns normally (whatever the number of
\* arguments), the lengths of the value stack, the keyword stack and the
\* bindings and the instruction pointer are what they were just before the
\* call.
C1_NormalExitRestores ==
    (obs.ev = "eval_block" /\ obs.result.r = "ok") => obs.after = obs.before

\* C2: whenever eval_block exits with an error, the lengths of the value
\* stack, the keyword stack and the bindings and the instruction pointer are
\* back at their values from before the call when the caller gets the error.
C2_ErrorExitRestores ==
    (obs.ev = "eval_block" /\ obs.result.r = "err") => obs.after = obs.before

\* C3: when a callback has dropped the error of a failed block call and
\* returns a value, the machine goes on with the instruction after that
\* CallFunction, and run ends normally: `try: { crash: "x" } or: { 1 }`
\* evaluates to 1.
C3_SwallowedErrorContinues ==
    /\ (obs.ev = "return" /\ obs.local = <<"suppressed">> /\ obs.result.r = "ok")
          => obs.ip = obs.site + 1
    /\ (obs.ev = "run" /\ script.src = "try_crash") => result = Ok(NumV(1))

RECURSIVE SatisfiedByValue(_, _)
\* Type::satisfied_by_value: no error is pushed for the value.  (There are
\* no Time values here, and Never and Money take no value.)
SatisfiedByValue(ty, v) ==
    IF ty.k \in {"Var", "Any"} THEN TRUE
    ELSE IF ty.k = "Num" THEN v.k = "Number"
    ELSE IF ty.k = "Str" THEN v.k = "String"
    ELSE IF ty.k = "Bool" THEN v.k = "Boolean"
    ELSE IF ty.k = "Block" THEN v.k = "Block"
    ELSE IF ty.k = "List"
    THEN v.k = "List" /\ \A i \in DOMAIN v.items : SatisfiedByValue(ty.elem, v.items[i])
    ELSE IF ty.k = "Record"
    THEN /\ v.k = "Record"
         /\ \A name \in DOMAIN ty.fields :
               IF name \in DOMAIN v.fields
               THEN SatisfiedByValue(ty.fields[name].ty, v.fields[name])
               ELSE ty.fields[name].optional
    ELSE FALSE

\* The script the host holds type-checked without errors and calls only
\* functions that are declared total.
TotalScript ==
    /\ script.typer_result.errors = <<>>
    /\ \A i \in DOMAIN script.instructions :
          script.instructions[i].op = "CallFunction" =>
             LET signature == GetSignature(ns, script.instructions[i].apply[1])
             IN  signature # <<>> /\ signature[1].total

\* C4: for a script that type-checks without errors and calls only total
\* functions, eval returns a value, never an error, for every inputs map
\* whose values are of the types in typer_result.inputs.
C4_TotalScriptsEvaluate ==
    ( /\ obs.ev = "run"
      /\ TotalScript
      /\ \A name \in DOMAIN script.typer_result.inputs :
            \E i \in DOMAIN obs.inputs :
               /\ obs.inputs[i][1] = name
               /\ SatisfiedByValue(script.typer_result.inputs[name], obs.inputs[i][2]) )
    => result.r = "ok"

\* C5: a CallFunction invokes the callback registered under the function
\* name written at the call site, and fails as undefined when no function
\* has that name; it never invokes a callback registered under another name.
C5_CallbackOfWrittenName ==
    obs.ev = "CallFunction" =>
        IF GetSignature(ns, obs.written[1]) = <<>>
        THEN obs.callback = <<>>
        ELSE obs.callback = GetCallback(ns, Find(ns.symbols, obs.written[1]))

\* C6: a block is never evaluated after the run of the machine that made it
\* has ended: such a call is rejected and executes no instruction.
C6_StaleBlockRejected ==
    obs.ev = "Block::call" => obs.outcome = "rejected"

\* C7: Script::compile returns a Script with its instructions whatever type
\* errors the expression has; it never panics or fails to return because of
\* them.
C7_CompileReturns ==
    obs.ev = "compile" =>
        /\ obs.end = "ok"
        /\ script.status = "compiled"
        /\ script.typer_result.errors = obs.errors

\* C8: PushVar pushes the value of the newest binding of the id that is on
\* the bindings stack, and fails with Undefined, the value stack untouched,
\* when there is none; a block call that returns normally leaves the bindings
\* as they were before it, so the outer binding is seen again:
\* `[x with: 2 do: { x => x } x]` with x = 1 is [1 2 1].
C8_NewestBindingWins ==
    /\ obs.ev = "PushVar" =>
          LET hits == {i \in DOMAIN bindings : bindings[i][1] = obs.id}
          IN  IF hits = {}
              THEN ret = Err("Undefined") /\ value_stack = obs.before
              ELSE \E i \in hits :
                      /\ \A j \in hits : j <= i
                      /\ value_stack = Append(obs.before, bindings[i][2])
                      /\ ret = Nothing
    /\ (obs.ev = "eval_block" /\ obs.result.r = "ok") => bindings = obs.orig_bindings
    /\ (obs.ev = "run" /\ script.src = "shadow" /\ obs.inputs = << <<"x", NumV(1)>> >>)
          => result = Ok(ListV(<<NumV(1), NumV(2), NumV(1)>>))

\* A PushVar has just pushed the value of a block parameter that shadows an
\* input of the same name.
C8_Shadowing ==
    /\ obs.ev = "PushVar"
    /\ \E i, j \in DOMAIN bindings :
          /\ i < j
          /\ bindings[i][1] = obs.id /\ bindings[j][1] = obs.id
          /\ bindings[i][2] # bindings[j][2]
          /\ value_stack = Append(obs.before, bindings[j][2])

\* C9: CallFunction(n) hands the callback an Apply whose keywords are those
\* written at the call site, in source order, the function name first.
C9_ApplyAsWritten ==
    (obs.ev = "CallFunction" /\ obs.callback # <<>>) =>
        [i \in DOMAIN obs.apply |-> Resolve(script.tree.symbols, obs.apply[i][1])]
            = obs.written

\* C10: define fails when the builder has no return type, has no callback,
\* or names a function that is defined already; after a failed define
\* get_signature and get_callback give for every name and every id what they
\* gave before.
C10_FailedDefineChangesNothing ==
    obs.ev = "define" =>
        LET b == Builders[obs.builder]
            name == b.args[1].name
        IN  /\ ( \/ b.returns = <<>>
                 \/ b.callback = <<>>
                 \/ GetSignature(obs.before, name) # <<>> ) => ~obs.ok
            /\ ~obs.ok =>
                  /\ \A i \in DOMAIN ns.symbols :
                        /\ GetSignature(ns, ns.symbols[i]) =
                              GetSignature(obs.before, ns.symbols[i])
                        /\ GetCallback(ns, i - 1) = GetCallback(obs.before, i - 1)
                        /\ GetCallback(ns, Find(ns.symbols, ns.symbols[i])) =
                              GetCallback(obs.before, Find(obs.before.symbols, ns.symbols[i]))

\* A define of a function that is defined already has just failed.
C10_DuplicateRefused ==
    /\ obs.ev = "define"
    /\ obs.builder = "not_again"
    /\ ~obs.ok
    /\ GetSignature(ns, "not") # <<>>

\* C11: after any sequence of intern calls, interning a value equal to a
\* stored one returns the id its first intern returned and leaves the arena
\* as long as it was; no two positions of the arena hold equal values; and
\* what was stored before a step is still there, unchanged, after it.
C11_InternStable ==
    /\ [](/\ Cardinality({ns.symbols[i] : i \in DOMAIN ns.symbols}) = Len(ns.symbols)
          /\ obs.ev = "intern" =>
                /\ obs.id = obs.first[obs.member]
                /\ obs.stored =>
                      /\ Len(ns.symbols) = obs.len
                      /\ \E i \in DOMAIN ns.symbols :
                            ns.symbols[i] = obs.member /\ obs.id = (i - 1) % U16)
    /\ [][SubSeq(ns'.symbols, 1, Len(ns.symbols)) = ns.symbols]_vars

\* A symbol the host interned before is interned again, in an arena that has
\* grown past 2^16 entries.
C11_InternedAgain ==
    /\ obs.ev = "intern"
    /\ obs.member # "not"
    /\ obs.stored
    /\ obs.len > U16
    /\ ns.symbols[Len(ns.symbols)] = obs.member

\* C12: resolve(intern(x)) = x for every x in every arena, and two values
\* whose interns returned the same id are equal, also when the arena holds
\* 2^16 values or more.
C12_ResolveIntern ==
    obs.ev = "intern" =>
        /\ Resolve(ns.symbols, obs.id) = obs.member
        /\ \A a, b \in DOMAIN obs.first : obs.first[a] = obs.first[b] => a = b

\* Signature::arg for the Argument node `arg` of the id tree: what the
\* signature of the function its Apply node calls (named by the first
\* keyword) declares for its keyword; <<>> when there is no signature or no
\* such argument.
DeclaredFor(tree, arg) ==
    LET apply == tree.nodes[tree.nodes[arg].parent]
        first_keyword == tree.nodes[tree.nodes[apply.children[1]].children[1]]
        signature == GetSignature(ns, Resolve(tree.symbols, first_keyword.data.id))
    IN  IF signature = <<>> THEN <<>>
        ELSE SigArg(signature[1], tree.nodes[tree.nodes[arg].children[1]].data.id)

\* The Argument nodes of the id tree.
Arguments(tree) ==
    {a \in DOMAIN tree.nodes : tree.nodes[a].data.node_type = "Argument"}

RECURSIVE Join(_, _)
\* The strings of `parts` with `sep` between them.
Join(parts, sep) ==
    IF parts = <<>> THEN ""
    ELSE IF Len(parts) = 1 THEN parts[1]
    ELSE parts[1] \o sep \o Join(Tail(parts), sep)

RECURSIVE PrintNode(_, _)
\* SyntaxTree::print_node (Display for SyntaxTree) with Display for Prim.
PrintNode(tree, id) ==
    LET node == tree.nodes[id]
        printed == [i \in DOMAIN node.children |-> PrintNode(tree, node.children[i])]
        prim == Resolve(tree.constants, node.data.id)
    IN  CASE node.data.node_type = "Primitive" ->
                IF prim.k = "Number" THEN ToString(prim.n)
                ELSE IF prim.k = "String" THEN "\"" \o prim.s \o "\""
                ELSE IF prim.b THEN "true" ELSE "false"
          [] node.data.node_type = "Variable" -> Join(printed, ".")
          [] node.data.node_type = "Ident" -> Resolve(tree.symbols, node.data.id)
          [] node.data.node_type = "Keyword" -> Resolve(tree.symbols, node.data.id) \o ":"
          [] node.data.node_type \in {"List", "Record"} -> "[" \o Join(printed, " ") \o "]"
          [] node.data.node_type = "RecordEntry" -> printed[1] \o "=" \o printed[2]
          [] node.data.node_type \in {"Apply", "Argument"} -> Join(printed, " ")
          [] node.data.node_type = "Block" -> "{ " \o Join(printed, "") \o " }"
          [] node.data.node_type = "BlockArgs" ->
                IF printed = <<>> THEN ""
                ELSE Join([i \in DOMAIN printed |-> printed[i] \o " "], "") \o "=> "

\* The node types met by a pre-order traversal of the id tree.
NodeTypes(tree) ==
    [i \in DOMAIN PreOrder(tree.nodes, tree.root) |->
        tree.nodes[PreOrder(tree.nodes, tree.root)[i]].data.node_type]

\* C13: in the tree parse returns, for every call of a function that has a
\* signature, every argument declared with a Block type whose value as
\* written is not a Block node has, in the place of that value under its
\* Argument node, a new Block node with the span of the value and the value
\* as its only child; so `if: true then: 1 else: 2` has the node types and
\* the printed form of `if: true then: { 1 } else: { 2 }`.
C13_ImplicitWrap ==
    obs.ev = "compile" =>
        \E raw \in {FromInputAndPair(ns.symbols, PairOf(Programs[obs.src], 0))} :
        \E tree \in {RewriteTree(ns, raw)} :
           /\ \A a \in Arguments(raw) :
                 LET value == raw.nodes[a].children[2]
                     block == tree.nodes[a].children[2]
                 IN  ( /\ DeclaredFor(raw, a) # <<>>
                       /\ DeclaredFor(raw, a)[1].ty.k = "Block"
                       /\ raw.nodes[value].data.node_type # "Block" ) =>
                        /\ Len(tree.nodes[a].children) = 2
                        /\ tree.nodes[a].children[1] = raw.nodes[a].children[1]
                        /\ block \notin DOMAIN raw.nodes
                        /\ tree.nodes[block] =
                              [data |-> NodeData("Block", None,
                                                 raw.nodes[value].data.start_pos,
                                                 raw.nodes[value].data.end_pos),
                               parent |-> a, children |-> <<value>>, live |-> TRUE]
                        /\ tree.nodes[value] = [raw.nodes[value] EXCEPT !.parent = block]
           /\ obs.end = "ok" => script.tree.nodes = Nested(tree, tree.root)
           /\ obs.src = "if_plain" =>
                 \E explicit \in {RewriteTree(ns, FromInputAndPair(ns.symbols,
                                                PairOf(Programs.if_blocks, 0)))} :
                    /\ NodeTypes(tree) = NodeTypes(explicit)
                    /\ PrintNode(tree, tree.root) = PrintNode(explicit, explicit.root)
                    /\ PrintNode(tree, tree.root) = "if: true then: { 1 } else: { 2 }"

\* `if: true then: 1 else: 2` has been compiled, and its then: and else:
\* values are Block nodes.
C13_Wrapped ==
    /\ obs.ev = "compile"
    /\ obs.src = "if_plain"
    /\ script.status = "compiled"
    /\ script.tree.nodes.pairs[2][2] = BlockNode(<<>>, PrimitiveNode(NumV(1)))
    /\ script.tree.nodes.pairs[3][2] = BlockNode(<<>>, PrimitiveNode(NumV(2)))

\* C14: in the tree parse returns, for every call of a function that has a
\* signature, every argument declared with a type that is not a Block type
\* whose value as written is a Block node without block arguments has the
\* body of that Block in its place (the Argument has two children, keyword
\* then value, and the Block node is gone); a Block with block arguments in
\* such a place, and every argument of a function without a signature, is as
\* it was written.
C14_ImplicitUnwrap ==
    obs.ev = "compile" =>
        \E raw \in {FromInputAndPair(ns.symbols, PairOf(Programs[obs.src], 0))} :
        \E tree \in {RewriteTree(ns, raw)} :
           /\ \A a \in Arguments(raw) :
                 LET block == raw.nodes[a].children[2]
                     body == raw.nodes[block].children[1]
                     signature == GetSignature(ns, Resolve(raw.symbols,
                        raw.nodes[raw.nodes[raw.nodes[raw.nodes[a].parent].children[1]]
                                     .children[1]].data.id))
                     misplaced == /\ DeclaredFor(raw, a) # <<>>
                                  /\ DeclaredFor(raw, a)[1].ty.k # "Block"
                                  /\ raw.nodes[block].data.node_type = "Block"
                 IN  /\ (misplaced /\ Len(raw.nodes[block].children) = 1) =>
                           /\ tree.nodes[a].children = <<raw.nodes[a].children[1], body>>
                           /\ ~tree.nodes[block].live
                           /\ tree.nodes[body].live
                           /\ tree.nodes[body].parent = a
                           /\ tree.nodes[body].data = raw.nodes[body].data
                           /\ tree.nodes[body].children = raw.nodes[body].children
                     /\ ((misplaced /\ Len(raw.nodes[block].children) > 1)
                            \/ signature = <<>>) =>
                           /\ tree.nodes[a] = raw.nodes[a]
                           /\ tree.nodes[block] = raw.nodes[block]
           /\ \A a \in Arguments(raw) :
                 /\ Len(tree.nodes[a].children) = 2
                 /\ tree.nodes[tree.nodes[a].children[1]].data.node_type = "Keyword"
           /\ obs.end = "ok" => script.tree.nodes = Nested(tree, tree.root)

\* `if: { true } then: { 1 } else: { 2 }` has been compiled, and the value of
\* its if: argument is the literal.
C14_Unwrapped ==
    /\ obs.ev = "compile"
    /\ obs.src = "if_redundant"
    /\ script.status = "compiled"
    /\ script.tree.nodes.pairs[1][2] = PrimitiveNode(BoolV(TRUE))
    /\ script.tree.nodes.pairs[2][2] = BlockNode(<<>>, PrimitiveNode(NumV(1)))

\* C15: rewrite changes no node of a tree that rewrite has produced, block
\* bodies that are Blocks without arguments included.
C15_RewriteIdempotent ==
    obs.ev = "compile" =>
        \E tree \in {RewriteTree(ns, FromInputAndPair(ns.symbols,
                                        PairOf(Programs[obs.src], 0)))} :
           /\ Collect(ns, tree) = [wrap |-> <<>>, unwrap |-> <<>>]
           /\ RewriteTree(ns, tree) = tree
RECURSIVE Accesses(_, _)
\* The dotted paths of the Variable nodes under `node` whose first segment
\* is no parameter of an enclosing block: those for which recur makes an
\* entry in the root scope.
Accesses(node, bound) ==
    CASE node.t = "Variable" ->
            IF node.path[1] \in bound THEN {} ELSE {node.path}
      [] node.t = "List" ->
            UNION {Accesses(node.items[i], bound) : i \in DOMAIN node.items}
      [] node.t \in {"Record", "Apply"} ->
            UNION {Accesses(node.pairs[i][2], bound) : i \in DOMAIN node.pairs}
      [] node.t = "Block" ->
            Accesses(node.body, bound \cup {node.args[i] : i \in DOMAIN node.args})
      [] OTHER -> {}

RECURSIVE FieldPaths(_)
\* The paths to the leaves of a record type; <<>> for any other type.
FieldPaths(ty) ==
    IF ty.k # "Record" THEN {<<>>}
    ELSE UNION {{<<name>> \o path : path \in FieldPaths(ty.fields[name].ty)} :
                   name \in DOMAIN ty.fields}

RECURSIVE IsClosed(_)
\* Type::Record with partial = false and no optional field, all the way down.
IsClosed(ty) ==
    ty.k = "Record" =>
        /\ ~ty.partial
        /\ \A name \in DOMAIN ty.fields :
              ~ty.fields[name].optional /\ IsClosed(ty.fields[name].ty)

\* C16: a free variable read through several dotted paths, none of them the
\* start of another, gets no type error and the closed record type with
\* exactly the union of the paths, each leaf typed by its use; the two
\* arguments of calc give foo = [bar = [baz = Num, qux = Num]] and output
\* Num, the condition and the branch of if give foo = [a = Bool, b = Num].
C16_RecordOfPaths ==
    obs.ev = "compile" =>
        LET paths == Accesses(Programs[obs.src], {})
            of(name) == {Tail(path) : path \in {q \in paths : q[1] = name}}
            starts(p, q) == Len(p) < Len(q) /\ SubSeq(q, 1, Len(p)) = p
            several == {path[1] : path \in {q \in paths :
                           /\ Cardinality(of(q[1])) > 1
                           /\ \A a, b \in of(q[1]) : ~starts(a, b)}}
            num == Ty("Num")
            field(ty) == [ty |-> ty, optional |-> FALSE]
        IN  /\ several # {} =>
                 /\ obs.end = "ok"
                 /\ obs.errors = <<>>
                 /\ script.status = "compiled"
                 /\ \A name \in several :
                       /\ name \in DOMAIN script.typer_result.inputs
                       /\ IsClosed(script.typer_result.inputs[name])
                       /\ FieldPaths(script.typer_result.inputs[name]) = of(name)
            /\ obs.src = "calc_paths" =>
                 /\ several = {"foo"}
                 /\ script.typer_result.inputs =
                       [foo |-> TyRecord(FALSE, [bar |-> field(TyRecord(FALSE,
                                   [baz |-> field(num), qux |-> field(num)]))])]
                 /\ script.typer_result.output = num
            /\ obs.src = "if_paths" =>
                 /\ several = {"foo"}
                 /\ script.typer_result.inputs =
                       [foo |-> TyRecord(FALSE, [a |-> field(Ty("Bool")),
                                                 b |-> field(num)])]
                 /\ script.typer_result.output = num

\* C16: `calc: foo.bar.baz plus: foo.bar.qux` has been type checked and foo
\* has both fields under bar.
C16_TwoPaths ==
    /\ obs.ev = "compile"
    /\ obs.src = "calc_paths"
    /\ script.status = "compiled"
    /\ DOMAIN script.typer_result.inputs = {"foo"}
    /\ DOMAIN script.typer_result.inputs.foo.fields.bar.ty.fields = {"baz", "qux"}

RECURSIVE LiteralArgs(_, _, _)
\* The arguments under `node` that pass a literal to a keyword the called
\* function declares with another primitive type: for each, in pre-order,
\* <<the type of the literal, the declared type>>.
LiteralArgs(ns_, tree, node) ==
    LET primitive == {Ty("Num"), Ty("Str"), Ty("Bool"), Ty("Time"), Ty("Money")}
        all(nodes) == Flatten([i \in DOMAIN nodes |-> LiteralArgs(ns_, tree, nodes[i])])
        values(ps) == [i \in DOMAIN ps |-> ps[i][2]]
        sig == GetSignature(ns_, node.pairs[1][1])
        own(p) ==
            LET spec == SigArg(sig[1], Find(tree.symbols, p[1]))
            IN  IF /\ sig # <<>>
                   /\ p[2].t = "Primitive"
                   /\ spec # <<>>
                   /\ spec[1].ty \in primitive \ {TypeOf(p[2].prim)}
                THEN << <<TypeOf(p[2].prim), spec[1].ty>> >>
                ELSE <<>>
    IN  CASE node.t = "Apply" ->
                Flatten([i \in DOMAIN node.pairs |-> own(node.pairs[i])])
                    \o all(values(node.pairs))
          [] node.t = "Record" -> all(values(node.pairs))
          [] node.t = "List" -> all(node.items)
          [] node.t = "Block" -> all(<<node.body>>)
          [] OTHER -> <<>>

RECURSIVE Parameters(_)
\* The names the Block nodes under `node` declare as their parameters.
Parameters(node) ==
    CASE node.t = "List" ->
            UNION {Parameters(node.items[i]) : i \in DOMAIN node.items}
      [] node.t \in {"Record", "Apply"} ->
            UNION {Parameters(node.pairs[i][2]) : i \in DOMAIN node.pairs}
      [] node.t = "Block" ->
            {node.args[i] : i \in DOMAIN node.args} \cup Parameters(node.body)
      [] OTHER -> {}

\* C18: the inputs of the type checker's result have an entry for every
\* variable that occurs free in the expression (bound by no parameter of an
\* enclosing block), wherever in the tree it occurs, and none for a name that
\* occurs only as a block parameter.
C18_InputsAreFreeVariables ==
    (obs.ev = "compile" /\ script.status = "compiled") =>
        LET free == {path[1] : path \in Accesses(Programs[obs.src], {})}
        IN  /\ \A name \in free : name \in DOMAIN script.typer_result.inputs
            /\ \A name \in Parameters(Programs[obs.src]) \ free :
                  name \notin DOMAIN script.typer_result.inputs

\* The type variables that occur in a TypeCheckerResult.
ResultVars(r) ==
    LET types(e) == {e[key] : key \in DOMAIN e \cap {"left", "right", "old", "new", "ty"}}
        names(e) == {e[key] : key \in DOMAIN e \cap {"name"}}
    IN  UNION {FreeVars(r.inputs[name]) : name \in DOMAIN r.inputs}
            \cup FreeVars(r.output)
            \cup UNION {UNION {FreeVars(ty) : ty \in types(r.errors[i])} \cup
                           {v \in names(r.errors[i]) : r.errors[i].problem \in
                               {"AlreadyBound", "InfiniteType", "RebindUndefined"}} :
                        i \in DOMAIN r.errors}

\* A TypeCheckerResult with its type variables renamed by `f`.
Renamed(r, f) ==
    LET subs == [v \in DOMAIN f |-> TyVar(f[v])]
        error(e) == [key \in DOMAIN e |->
            IF key \in {"left", "right", "old", "new", "ty"}
            THEN ApplySubstitution(e[key], subs)
            ELSE IF key = "name" /\ e[key] \in DOMAIN f
                    /\ e.problem \in {"AlreadyBound", "InfiniteType", "RebindUndefined"}
            THEN f[e[key]]
            ELSE e[key]]
    IN  [inputs |-> [name \in DOMAIN r.inputs |-> ApplySubstitution(r.inputs[name], subs)],
         output |-> ApplySubstitution(r.output, subs),
         errors |-> [i \in DOMAIN r.errors |-> error(r.errors[i])]]

\* C19: two runs of type inference on the same namespace and the same tree
\* give equal inputs, output and errors up to a renaming of the fresh type
\* variables, whatever the iteration order of the hash sets and hash maps.
C19_InferenceDeterministic ==
    (obs.ev = "compile" /\ script.status = "compiled") =>
        \A h \in HashOrders :
            LET other == TypeCheck(ns, script.tree, h)
                r == [inputs |-> other.inputs, output |-> other.output,
                      errors |-> other.errors]
            IN  \E f \in [ResultVars(r) -> ResultVars(script.typer_result)] :
                   /\ \A v, w \in DOMAIN f : f[v] = f[w] => v = w
                   /\ Renamed(r, f) = script.typer_result

\* C20: a record type is accepted where another is demanded only if every
\* required field of the demanded one is present in it: reading `.b` from a
\* block parameter that receives the closed record [a = 1], as in
\* `with: [a = 1] do: { r => r.b }` (and the same with a function defined
\* with the signature of `with`), gives a FieldMissing type error.
C20_MissingFieldReported ==
    ( /\ obs.ev = "compile"
      /\ obs.src \in {"with_b", "pipe_b"}
      /\ GetSignature(ns, Programs[obs.src].pairs[1][1]) # <<>> )
    => \E i \in DOMAIN obs.errors : obs.errors[i].problem = "FieldMissing"

RECURSIVE HasPartial(_)
\* Whether a Type::Record(true, _) occurs in `ty` at any depth.
HasPartial(ty) ==
    CASE ty.k = "Record" ->
            ty.partial \/ \E name \in DOMAIN ty.fields : HasPartial(ty.fields[name].ty)
      [] ty.k = "List" -> HasPartial(ty.elem)
      [] ty.k = "Block" ->
            HasPartial(ty.out) \/ \E i \in DOMAIN ty.ins : HasPartial(ty.ins[i])
      [] OTHER -> FALSE

\* C21: after solving, no type in the inputs or the output of the type
\* checker's result contains a partial record at any depth, be it a field
\* of a closed record, the element type of a list, or an input or the output
\* of a block type.
C21_NoPartialRecordLeft ==
    (obs.ev = "compile" /\ script.status = "compiled") =>
        /\ ~HasPartial(script.typer_result.output)
        /\ \A name \in DOMAIN script.typer_result.inputs :
              ~HasPartial(script.typer_result.inputs[name])

\* C22: at a call site every free type variable of the signature, of the
\* argument types and of the return type alone, is replaced by a fresh one,
\* so two calls of one polymorphic function in an expression do not
\* constrain each other: `[a = not: make: 1 b = calc: make: 1]`, make
\* returning T for a Num, and `[a = with: 1 do: { x => x } b = with: "s"
\* do: { y => y }]` type-check without error, the fields typed by their use.
C22_CallSitesIndependent ==
    LET field(ty) == [ty |-> ty, optional |-> FALSE]
    IN  /\ ( /\ obs.ev = "type_of"
             /\ obs.src = "with_twice" )
           => /\ obs.end = "ok"
              /\ obs.errors = <<>>
              /\ obs.output = TyRecord(FALSE, [a |-> field(Ty("Num")),
                                               b |-> field(Ty("Str"))])
        /\ ( /\ obs.ev = "type_of"
             /\ obs.src = "make_twice"
             /\ GetSignature(ns, "make") # <<>> )
           => /\ obs.end = "ok"
              /\ obs.errors = <<>>
              /\ obs.output = TyRecord(FALSE, [a |-> field(Ty("Bool")),
                                               b |-> field(Ty("Num"))])

RECURSIVE BlockArgs(_, _, _)
\* The arguments under `node` that pass a block literal to a keyword the
\* called function declares with a block type: for each, in pre-order,
\* <<the number of parameters of the literal, the number of inputs declared>>.
BlockArgs(ns_, tree, node) ==
    LET all(nodes) == Flatten([i \in DOMAIN nodes |-> BlockArgs(ns_, tree, nodes[i])])
        values(ps) == [i \in DOMAIN ps |-> ps[i][2]]
        sig == GetSignature(ns_, node.pairs[1][1])
        own(p) ==
            LET spec == SigArg(sig[1], Find(tree.symbols, p[1]))
            IN  IF sig # <<>> /\ p[2].t = "Block" /\ spec # <<>> /\ spec[1].ty.k = "Block"
                THEN << <<Len(p[2].args), Len(spec[1].ty.ins)>> >>
                ELSE <<>>
    IN  CASE node.t = "Apply" ->
                Flatten([i \in DOMAIN node.pairs |-> own(node.pairs[i])])
                    \o (IF sig = <<>> THEN <<>> ELSE all(values(node.pairs)))
          [] node.t = "Record" -> all(values(node.pairs))
          [] node.t = "List" -> all(node.items)
          [] node.t = "Block" -> all(<<node.body>>)
          [] OTHER -> <<>>

UnifiedLeft == ApplySubstitution(obs.left, obs.before.subst)

UnifiedRight == ApplySubstitution(obs.right, obs.before.subst)

\* The last step unified Any with another type.
UnifiedWithAny ==
    /\ obs.ev = "unify"
    /\ UnifiedLeft # UnifiedRight
    /\ Ty("Any") \in {UnifiedLeft, UnifiedRight}

\* C24 as stated: unifying Any with any other type, on either side, gives
\* Any, reports no problem and adds no binding.
C24_AnyBindsNothing ==
    UnifiedWithAny =>
        /\ obs.ty = Ty("Any")
        /\ obs.u.errors = obs.before.errors
        /\ obs.u.subst = obs.before.subst

\* C24, amended: unifying Any with a type that is not a type variable gives
\* Any, reports no problem and adds no binding; against a type variable the
\* variable rule comes first: an unbound variable is bound to Any (Any is
\* the result, no problem is reported), and a variable that has a binding
\* to another type keeps it and AlreadyBound is reported.
C24_AnyBindsVariablesOnly ==
    UnifiedWithAny =>
        LET other == IF UnifiedLeft = Ty("Any") THEN UnifiedRight ELSE UnifiedLeft
            bound == obs.before.subst
        IN  IF other.k # "Var"
            THEN /\ obs.ty = Ty("Any")
                 /\ obs.u.errors = obs.before.errors
                 /\ obs.u.subst = bound
            ELSE IF other.name \notin DOMAIN bound
            THEN /\ obs.ty = Ty("Any")
                 /\ obs.u.errors = obs.before.errors
                 /\ obs.u.subst = (other.name :> Ty("Any")) @@ bound
            ELSE IF bound[other.name] = Ty("Any")
            THEN /\ obs.ty = Ty("Any")
                 /\ obs.u.errors = obs.before.errors
                 /\ obs.u.subst = bound
            ELSE /\ obs.ty = bound[other.name]
                 /\ obs.u.errors =
                       Append(obs.before.errors,
                              [problem |-> "AlreadyBound", name |-> other.name,
                               old |-> bound[other.name], new |-> Ty("Any")])
                 /\ obs.u.subst = bound

\* C24: Any has been unified with a list type whose element type is a
\* variable, after another constraint had bound a variable.
C24_AnyAgainstList ==
    /\ UnifiedWithAny
    /\ "List" \in {UnifiedLeft.k, UnifiedRight.k}
    /\ obs.before.subst # <<>>
    /\ obs.ty = Ty("Any")

RECURSIVE CodeSize(_)
\* The number of instructions Emitter::recur pushes for `node`.
CodeSize(node) ==
    LET sum(nodes) == Len(Flatten([i \in DOMAIN nodes |->
                              [j \in 1..CodeSize(nodes[i]) |-> j]]))
        values(ps) == [i \in DOMAIN ps |-> ps[i][2]]
    IN  CASE node.t = "Primitive" -> 1
          [] node.t = "Variable" -> Len(node.path)
          [] node.t = "List" -> sum(node.items) + 1
          [] node.t = "Block" -> 1 + Len(node.args) + CodeSize(node.body)
          [] OTHER -> Len(node.pairs) + sum(values(node.pairs)) + 1

RECURSIVE BlocksAt(_, _)
\* The Block nodes under `node`, whose code starts at index `at` of the
\* instructions: <<Block node, index of its first instruction>>.
BlocksAt(node, at) ==
    LET RECURSIVE walk(_, _, _)
        \* nodes[i..] laid out from `from`, `lead` instructions before each
        walk(nodes, from, lead) ==
            IF nodes = <<>> THEN {}
            ELSE BlocksAt(Head(nodes), from + lead)
                    \cup walk(Tail(nodes), from + lead + CodeSize(Head(nodes)), lead)
        values(ps) == [i \in DOMAIN ps |-> ps[i][2]]
    IN  CASE node.t \in {"Primitive", "Variable"} -> {}
          [] node.t = "List" -> walk(node.items, at, 0)
          [] node.t = "Block" ->
                {<<node, at>>} \cup BlocksAt(node.body, at + 1 + Len(node.args))
          [] OTHER -> walk(values(node.pairs), at, 1)

\* C25: for every Block node with parameters p1..pn and body B the emitter
\* produces MkBlock{argc: n, skip: s}, then Bind p1 .. Bind pn in source
\* order, then the code of B, with s the number of instructions emitted for
\* the Binds and B: the part of the claim about the emitter, on what emit
\* returns.
C25_BlockLayout ==
    obs.ev = "emit" =>
        \A b \in BlocksAt(obs.tree.nodes, 1) :
            LET node == b[1]
                at == b[2]
                n == Len(node.args)
                s == n + CodeSize(node.body)
                code == obs.instructions
            IN  /\ at + s <= Len(code)
                /\ code[at] = [op |-> "MkBlock", argc |-> n, skip |-> s]
                /\ \A i \in 1..n :
                      code[at + i] = [op |-> "Bind",
                                      id |-> Find(obs.tree.symbols, node.args[i])]
                /\ SubSeq(code, at + n + 1, at + s) = Emit(obs.tree, node.body)

\* C26: satisfied_by_value gives Ok exactly when the value has the shape
\* the type demands; otherwise there is one message per violation, prefixed
\* with the item index or the field name: every message about a list starts
\* with the index of an item that does not satisfy the element type, every
\* message about a record with the name of a declared field that is
\* missing or does not satisfy its type, and each such item or field has a
\* message.
C26_OneMessagePerViolation ==
    obs.ev = "satisfied_by_value" =>
        LET first(e) == IF e.path = <<>> THEN [loc |-> "none", id |-> ""] ELSE e.path[1]
            firsts == {first(obs.errors[i]) : i \in DOMAIN obs.errors}
            items == {i \in DOMAIN obs.value.items :
                         ~SatisfiedByValue(obs.ty.elem, obs.value.items[i])}
            fields == {name \in DOMAIN obs.ty.fields :
                          IF name \in DOMAIN obs.value.fields
                          THEN ~SatisfiedByValue(obs.ty.fields[name].ty,
                                                 obs.value.fields[name])
                          ELSE ~obs.ty.fields[name].optional}
        IN  /\ (obs.errors = <<>>) <=> SatisfiedByValue(obs.ty, obs.value)
            /\ obs.ty.k = "List" /\ obs.value.k = "List" =>
                  firsts = {[loc |-> "item", id |-> ToString(i - 1)] : i \in items}
            /\ obs.ty.k = "Record" /\ obs.value.k = "Record" =>
                  firsts = {[loc |-> "field", id |-> name] : name \in fields}

RECURSIVE StackEffect(_, _, _)
\* What the instructions from index `from` up to `to` do to the lengths of
\* the two stacks when step executes them one after the other, a MkBlock
\* jumping over its block: where the walk ends (`to`, or past it when `to`
\* lies inside a block that is jumped over), and the values and keywords
\* pushed less those popped.
StackEffect(code, from, to) ==
    IF from >= to \/ from >= Len(code) THEN [at |-> from, values |-> 0, keywords |-> 0]
    ELSE LET op == code[from + 1]
             next == IF op.op = "MkBlock" THEN from + op.skip + 1 ELSE from + 1
             rest == StackEffect(code, next, to)
             values == CASE op.op \in {"PushPrimitive", "PushVar", "MkBlock"} -> 1
                         [] op.op \in {"PushProp", "PushKeyword"} -> 0
                         [] op.op = "Bind" -> -1
                         [] op.op = "MkList" -> 1 - op.size
                         [] op.op = "MkRecord" -> 1 - op.size
                         [] op.op = "CallFunction" -> 1 - op.argc
             keywords == CASE op.op = "PushKeyword" -> 1
                           [] op.op = "MkRecord" -> -op.size
                           [] op.op = "CallFunction" -> -op.argc
                           [] OTHER -> 0
         IN  [at |-> rest.at, values |-> values + rest.values,
              keywords |-> keywords + rest.keywords]

\* What C27 asks of the script the host holds and of the inputs of a run: the
\* type checker found nothing wrong (every function called is known and
\* gets arguments of the declared types), every block literal passed as an
\* argument has as many parameters as the function passes it values, crash
\* is not called, every free variable has an input of the type inferred for
\* it, and no field is read from a block parameter.
Disciplined(inputs) ==
    LET code == script.instructions
        binds == {code[i].id : i \in {j \in DOMAIN code : code[j].op = "Bind"}}
        blocks == BlockArgs(ns, script.tree, script.tree.nodes)
    IN  /\ script.status = "compiled"
        /\ script.typer_result.errors = <<>>
        /\ \A i \in DOMAIN blocks : blocks[i][1] = blocks[i][2]
        /\ \A i \in DOMAIN code :
              /\ code[i].op = "CallFunction" => code[i].apply[1] # "crash"
              /\ code[i].op = "PushProp" /\ code[i - 1].op = "PushVar" =>
                    code[i - 1].id \notin binds
        /\ \A name \in DOMAIN script.typer_result.inputs :
              \E i \in DOMAIN inputs :
                 /\ inputs[i][1] = name
                 /\ SatisfiedByValue(script.typer_result.inputs[name], inputs[i][2])

C28_BoundPositionally ==
    ( /\ host = "running"
      /\ ret = Nothing
      /\ Len(frames) >= 2
      /\ Top.f = "eval_range"
      /\ frames[Len(frames) - 1].f = "eval_block" ) =>
        LET call == frames[Len(frames) - 1]
            n == call.block.argc
            param(i) == script.instructions[call.block.ip + i].id
        IN  ( /\ Len(call.args) = n
              /\ instruction_pointer = call.block.ip + n
              /\ \A i, j \in 1..n : param(i) = param(j) => i = j ) =>
                \A i \in 1..n : Lookup(param(i)) = <<call.args[i]>>

\* C29: solve terminates for every list of constraints: no unify runs
\* without end, minimize_substitution returns, and in the substitution it
\* returns no binding's type mentions a bound variable (a variable tied to
\* a type that contains it through other variables is reported, never
\* stored).
C29_SolveTerminates ==
    /\ obs.ev = "unify" => ~obs.u.overflow
    /\ obs.ev = "solved" =>
          /\ obs.end = "ok"
          /\ \A v \in DOMAIN obs.subst :
                FreeVars(obs.subst[v]) \cap DOMAIN obs.subst = {}

\* C30: solve never reports RebindUndefined: a variable that names a side
\* of a constraint whose sides are records has a binding when the merged
\* record is bound to it.
C30_NeverRebindUndefined ==
    LET reported == IF obs.ev = "unify" THEN obs.u.errors
                    ELSE IF obs.ev \in {"type_of", "solved"} THEN obs.errors
                    ELSE <<>>
    IN  \A i \in DOMAIN reported : reported[i].problem # "RebindUndefined"

\* C30: a constraint between a variable bound to a record and a record has
\* been unified, after a unify inside it has bound another variable, and the
\* variable has been bound again, to the merged record.
C30_Rebound ==
    /\ obs.ev = "unify"
    /\ obs.left.k = "Var"
    /\ obs.right.k = "Record"
    /\ obs.left.name \in DOMAIN obs.before.subst
    /\ obs.before.subst[obs.left.name].k = "Record"
    /\ obs.ty.k = "Record"
    /\ obs.u.subst[obs.left.name] = obs.ty
    /\ obs.ty # obs.before.subst[obs.left.name]
    /\ DOMAIN obs.u.subst # DOMAIN obs.before.subst

====
